---- MODULE Spec2Model ----
(***************************************************************************)
(* litecrypt: the envelope codec and the authenticated-cipher pipeline     *)
(* (litecrypt/core/_base.py, core/base.py, core/crypt.py,                  *)
(* core/helpers/funcs.py).                                                 *)
(*                                                                         *)
(* Bytes are naturals 0..255, byte strings are sequences of them, text is  *)
(* a sequence of code points.  The library primitives (SHA-256, HMAC,      *)
(* bcrypt.kdf, AES-CBC) are replaced by small deterministic stand-ins of   *)
(* the same shape: keyed, fixed output length, sensitive to every input    *)
(* byte, the cipher invertible under its key.                              *)
(***************************************************************************)
EXTENDS Integers, Sequences, FiniteSets, Bags, TLC

(* ---- litecrypt/utils/consts/main.py ---- *)
Size_IV == 16
Size_SALT == 16
Size_PEPPER == 16
Size_BLOCK == 128
Size_MAIN_KEY == 32
Size_AES_KEY == 32
Size_HMAC == 32
Size_MIN_ITERATIONS == 50
Size_MAX_ITERATIONS == 1000000
FOR_ITERATIONS == 4
FOR_KDF_SIGNATURE == 4
UseKDF_SLOW == 0
UseKDF_FAST == 1

(* ---- byte-string helpers ---- *)
\* a byte string given by its bytes, as a sequence value
Tuple(f, n) == SubSeq(f, 1, n)

Rep(x, n) == Tuple([i \in 1..n |-> x], n)

Take(s, n) == SubSeq(s, 1, IF n < Len(s) THEN n ELSE Len(s))

Drop(s, n) == SubSeq(s, (IF n < Len(s) THEN n ELSE Len(s)) + 1, Len(s))

\* Python's s[a:b] for 0 <= a <= b: out-of-range bounds are clipped, never an error
Slice(s, a, b) == Drop(Take(s, b), a)

\* the pieces p[lo], ..., p[hi] joined
RECURSIVE Concat(_, _, _)
Concat(p, lo, hi) ==
    IF lo > hi THEN <<>>
    ELSE IF lo = hi THEN p[lo]
    ELSE LET mid == (lo + hi) \div 2
         IN  Concat(p, lo, mid) \o Concat(p, mid + 1, hi)

\* the sum of the naturals f[1], ..., f[n]: the size of the bag holding i f[i] + 1
\* times, less n
SumAll(f, n) == IF n = 0 THEN 0 ELSE BagCardinality([i \in 1..n |-> f[i] + 1]) - n

RECURSIVE XorBits(_, _, _)
XorBits(a, b, n) ==
    IF n = 0 THEN 0
    ELSE (((a % 2) + (b % 2)) % 2) + 2 * XorBits(a \div 2, b \div 2, n - 1)

Xor4 == [a \in 0..15 |-> [b \in 0..15 |-> XorBits(a, b, 4)]]

XorByte(a, b) == 16 * Xor4[a \div 16][b \div 16] + Xor4[a % 16][b % 16]

XorBytes(s, t) == Tuple([i \in 1..Len(s) |-> XorByte(s[i], t[i])], Len(s))

AddBytes(s, t) == Tuple([i \in 1..Len(s) |-> (s[i] + t[i]) % 256], Len(s))

SubBytes(s, t) == Tuple([i \in 1..Len(s) |-> (s[i] - t[i] + 256) % 256], Len(s))

(* ---- results: a value or a raised exception ---- *)
Ok(v) == [ok |-> TRUE, err |-> "", v |-> v]

Raise(e) == [ok |-> FALSE, err |-> e, v |-> <<>>]

(* ---- struct.pack("!I", n) / struct.unpack("!I", b) ---- *)
\* TLC's integers end at 2^31 - 1: an unpacked value of 2^31 or more is
\* held as 2^31 - 1.  Every use of an unpacked value compares it with 0 or with
\* a bound of at most 10^6, so no comparison changes.
IntMax == 2147483647

\* the least significant byte first
pack_I_little_endian(n) ==
    IF n < 0 THEN Raise("struct.error")
    ELSE Ok(<< n % 256, (n \div 256) % 256,
               (n \div 65536) % 256, (n \div 16777216) % 256 >>)

pack_I(n) ==
    IF n < 0 THEN Raise("struct.error")
    ELSE Ok(<< (n \div 16777216) % 256, (n \div 65536) % 256,
               (n \div 256) % 256, n % 256 >>)

unpack_I(b) ==
    IF Len(b) # 4 THEN Raise("struct.error")
    ELSE [ok |-> TRUE, err |-> "",
          v |-> IF b[1] >= 128 THEN IntMax
                ELSE b[1] * 16777216 + b[2] * 65536 + b[3] * 256 + b[4]]

(* ---- stand-ins for the hash primitives ---- *)
\* two polynomial checksums modulo distinct primes, spread over 32 bytes
HashSpan == 320

RECURSIVE PowMod(_, _, _)
PowMod(m, k, p) ==
    IF k = 0 THEN 1
    ELSE LET h == PowMod(m, k \div 2, p)
         IN  (((h * h) % p) * (IF k % 2 = 1 THEN m ELSE 1)) % p

Weights1 == [k \in 0..HashSpan |-> PowMod(263, k, 46337)]
Weights2 == [k \in 0..HashSpan |-> PowMod(269, k, 46327)]

Poly(s, h0, w, p) ==
    LET n == Len(s)
    IN  (h0 * w[n] + SumAll([i \in 1..n |-> ((s[i] + 1) * w[n - i]) % p], n)) % p

Digest32(s, domain) ==
    LET h1 == Poly(s, domain, Weights1, 46337)
        h2 == Poly(s, domain + 7, Weights2, 46327)
    IN  Tuple([j \in 1..32 |->
                 CASE j = 1 -> h1 \div 256
                   [] j = 2 -> h1 % 256
                   [] j = 3 -> h2 \div 256
                   [] j = 4 -> h2 % 256
                   [] OTHER -> (h1 + j * h2 + j) % 256], 32)

sha256(data) == Digest32(data, 1)

hmac_sha256(key, data) == Digest32(key \o <<256>> \o data, 2)

\* bcrypt.kdf(password, salt, desired_key_bytes, rounds)
bcrypt_kdf(password, salt, desired_key_bytes, rounds) ==
    IF Len(password) = 0 \/ Len(salt) = 0 THEN Raise("ValueError")
    ELSE IF desired_key_bytes <= 0 \/ desired_key_bytes > 512 THEN Raise("ValueError")
    ELSE IF rounds < 1 THEN Raise("ValueError")
    ELSE Ok(Take(Digest32(password \o <<256>> \o salt \o <<256, rounds % 256, (rounds \div 256) % 256, rounds \div 65536>>, 3),
                 desired_key_bytes))

(* ---- str.encode("UTF-8") / bytes.decode("UTF-8") ---- *)
utf8_char(c) ==
    IF c < 128 THEN <<c>>
    ELSE IF c < 2048 THEN << 192 + (c \div 64), 128 + (c % 64) >>
    ELSE IF c < 65536 THEN
        << 224 + (c \div 4096), 128 + ((c \div 64) % 64), 128 + (c % 64) >>
    ELSE << 240 + (c \div 262144), 128 + ((c \div 4096) % 64),
            128 + ((c \div 64) % 64), 128 + (c % 64) >>

IsSurrogate(c) == c >= 55296 /\ c <= 57343

str_encode(s) ==
    IF \A i \in 1..Len(s) : s[i] < 128 THEN Ok(s)
    ELSE IF \E i \in 1..Len(s) : IsSurrogate(s[i]) THEN Raise("UnicodeEncodeError")
    ELSE Ok(Concat([i \in 1..Len(s) |-> utf8_char(s[i])], 1, Len(s)))

IsCont(s, i) == i <= Len(s) /\ s[i] >= 128 /\ s[i] <= 191

\* <<code point, bytes consumed>>, or <<-1, 0>> for an invalid sequence at i
utf8_next(s, i) ==
    LET b == s[i] IN
    IF b < 128 THEN <<b, 1>>
    ELSE IF b >= 194 /\ b <= 223 /\ IsCont(s, i + 1) THEN
        << (b - 192) * 64 + (s[i + 1] - 128), 2 >>
    ELSE IF b >= 224 /\ b <= 239 /\ IsCont(s, i + 1) /\ IsCont(s, i + 2) THEN
        LET c == (b - 224) * 4096 + (s[i + 1] - 128) * 64 + (s[i + 2] - 128)
        IN  IF c < 2048 \/ IsSurrogate(c) THEN <<-1, 0>> ELSE <<c, 3>>
    ELSE IF b >= 240 /\ b <= 244 /\ IsCont(s, i + 1) /\ IsCont(s, i + 2)
            /\ IsCont(s, i + 3) THEN
        LET c == (b - 240) * 262144 + (s[i + 1] - 128) * 4096
                 + (s[i + 2] - 128) * 64 + (s[i + 3] - 128)
        IN  IF c < 65536 \/ c > 1114111 THEN <<-1, 0>> ELSE <<c, 4>>
    ELSE <<-1, 0>>

\* every byte that is no continuation byte must start a well-formed sequence that
\* ends where the next one starts
bytes_decode(b) ==
    LET n == Len(b)
        starts == {i \in 1..n : ~IsCont(b, i)}
        good(i) == LET x == utf8_next(b, i)
                   IN  x[1] >= 0 /\ (i + x[2] = n + 1 \/ i + x[2] \in starts)
    IN  IF \A i \in 1..n : b[i] < 128 THEN Ok(b)
        ELSE IF (n > 0 /\ 1 \notin starts) \/ (\E i \in starts : ~good(i))
        THEN Raise("UnicodeDecodeError")
        ELSE Ok(Concat([i \in 1..n |->
                          IF i \in starts THEN <<utf8_next(b, i)[1]>> ELSE <<>>], 1, n))

(* ---- bytes.strip() / str.strip() ---- *)
AsciiSpace == {9, 10, 11, 12, 13, 32}

UnicodeSpace ==
    AsciiSpace \cup {28, 29, 30, 31, 133, 160, 5760, 8232, 8233, 8239, 8287, 12288}
               \cup (8192..8202)

Strip(s, ws) ==
    LET keep == {i \in 1..Len(s) : s[i] \notin ws}
        lo == CHOOSE i \in keep : \A j \in keep : i <= j
        hi == CHOOSE i \in keep : \A j \in keep : i >= j
    IN  IF keep = {} THEN <<>> ELSE SubSeq(s, lo, hi)

bytes_strip(b) == Strip(b, AsciiSpace)

str_strip(s) == Strip(s, UnicodeSpace)

(* ---- bytes.fromhex(s) ---- *)
HexVal(c) ==
    IF c >= 48 /\ c <= 57 THEN c - 48
    ELSE IF c >= 97 /\ c <= 102 THEN c - 87
    ELSE IF c >= 65 /\ c <= 70 THEN c - 55
    ELSE -1

\* ASCII whitespace is skipped before a pair, never inside one: the digits are
\* paired in order, and the second of a pair directly follows the first
bytes_fromhex(s) ==
    LET n == Len(s)
        digits == Concat([i \in 1..n |-> IF s[i] \notin AsciiSpace THEN <<i>> ELSE <<>>],
                         1, n)
        pairs == Len(digits) \div 2
        first(k) == digits[2 * k - 1]
        good(k) == /\ digits[2 * k] = first(k) + 1
                   /\ HexVal(s[first(k)]) >= 0
                   /\ HexVal(s[first(k) + 1]) >= 0
    IN  IF Len(digits) % 2 # 0 \/ \E k \in 1..pairs : ~good(k) THEN Raise("ValueError")
        ELSE Ok(Tuple([k \in 1..pairs |->
                         HexVal(s[first(k)]) * 16 + HexVal(s[first(k) + 1])], pairs))

(* ---- base64.urlsafe_b64encode / urlsafe_b64decode ---- *)
\* the alphabet of standard base64: '+' and '/' for 62 and 63
B64Char_standard(v) ==
    IF v < 26 THEN 65 + v
    ELSE IF v < 52 THEN 97 + (v - 26)
    ELSE IF v < 62 THEN 48 + (v - 52)
    ELSE IF v = 62 THEN 43
    ELSE 47

B64Char(v) ==
    IF v < 26 THEN 65 + v
    ELSE IF v < 52 THEN 97 + (v - 26)
    ELSE IF v < 62 THEN 48 + (v - 52)
    ELSE IF v = 62 THEN 45
    ELSE 95

B64Val(c) ==
    IF c >= 65 /\ c <= 90 THEN c - 65
    ELSE IF c >= 97 /\ c <= 122 THEN c - 97 + 26
    ELSE IF c >= 48 /\ c <= 57 THEN c - 48 + 52
    ELSE IF c = 45 THEN 62
    ELSE IF c = 95 THEN 63
    ELSE -1

B64Pad == 61

\* the g-th group of up to three bytes as four characters
b64_group(b, g) ==
    LET i == 3 * g - 2
        n == Len(b)
        b1 == b[i]
        b2 == IF i + 1 <= n THEN b[i + 1] ELSE 0
        b3 == IF i + 2 <= n THEN b[i + 2] ELSE 0
    IN  << B64Char(b1 \div 4),
           B64Char((b1 % 4) * 16 + (b2 \div 16)),
           IF i + 1 <= n THEN B64Char((b2 % 16) * 4 + (b3 \div 64)) ELSE B64Pad,
           IF i + 2 <= n THEN B64Char(b3 % 64) ELSE B64Pad >>

urlsafe_b64encode(b) ==
    LET groups == (Len(b) + 2) \div 3
    IN  Concat([g \in 1..groups |-> b64_group(b, g)], 1, groups)

\* the g-th group of four characters as up to three bytes; <<-1>> when malformed
b64_ungroup(t, g) ==
    LET i == 4 * g - 3
        a == B64Val(t[i])
        b == B64Val(t[i + 1])
        c == B64Val(t[i + 2])
        d == B64Val(t[i + 3])
        last == i + 3 = Len(t)
    IN  IF a < 0 \/ b < 0 THEN <<-1>>
        ELSE IF last /\ t[i + 2] = B64Pad /\ t[i + 3] = B64Pad THEN
            << a * 4 + (b \div 16) >>
        ELSE IF c < 0 THEN <<-1>>
        ELSE IF last /\ t[i + 3] = B64Pad THEN
            << a * 4 + (b \div 16), (b % 16) * 16 + (c \div 4) >>
        ELSE IF d < 0 THEN <<-1>>
        ELSE << a * 4 + (b \div 16), (b % 16) * 16 + (c \div 4), (c % 4) * 64 + d >>

\* the alphabet after urlsafe_b64decode's translation of "-_" to "+/": all four count
B64ValAny(c) ==
    IF c = 43 THEN 62
    ELSE IF c = 47 THEN 63
    ELSE B64Val(c)

\* binascii.a2b_base64 in its default, non-strict mode: characters outside the
\* alphabet are skipped, a pad that completes a group of two or three data
\* characters ends the input, and data that ends inside a group is an error
\* the pads that end the input, given the positions of the data characters
b64_stops(t, data) ==
    {i \in 1..Len(t) :
        /\ t[i] = B64Pad
        /\ LET quad == Cardinality({j \in data : j < i}) % 4
               pads == Cardinality({j \in 1..i : /\ t[j] = B64Pad
                                                 /\ \A d \in data : d < i => d < j})
           IN  quad >= 2 /\ quad + pads >= 4}

\* the six-bit values of the data characters before position end
b64_vals(t, data, end) ==
    Concat([i \in 1..Len(t) |->
              IF i \in data /\ i < end THEN <<B64ValAny(t[i])>> ELSE <<>>],
           1, Len(t))

\* the j-th byte of the six-bit values
b64_byte(vals, j) ==
    LET q == 4 * ((j - 1) \div 3)
        r == (j - 1) % 3
    IN  IF r = 0 THEN vals[q + 1] * 4 + (vals[q + 2] \div 16)
        ELSE IF r = 1 THEN (vals[q + 2] % 16) * 16 + (vals[q + 3] \div 4)
        ELSE (vals[q + 3] % 4) * 64 + vals[q + 4]

b64_bytes(vals, stopped) ==
    IF ~stopped /\ Len(vals) % 4 # 0 THEN Raise("binascii.Error")
    ELSE Ok(Tuple([j \in 1..((Len(vals) * 6) \div 8) |-> b64_byte(vals, j)],
                  (Len(vals) * 6) \div 8))

b64_cut(t, data, stops) ==
    b64_bytes(b64_vals(t, data,
                       IF stops = {} THEN Len(t) + 1
                       ELSE CHOOSE i \in stops : \A j \in stops : i <= j),
              stops # {})

b64_positions(t, data) == b64_cut(t, data, b64_stops(t, data))

b64_lenient(t) == b64_positions(t, {i \in 1..Len(t) : B64ValAny(t[i]) >= 0})

\* text made of whole groups is decoded group by group, any other text as
\* a2b_base64 reads it
urlsafe_b64decode(t) ==
    LET groups == Len(t) \div 4
    IN  IF Len(t) % 4 # 0 \/ \E g \in 1..groups : b64_ungroup(t, g) = <<-1>>
        THEN b64_lenient(t)
        ELSE Ok(Concat([g \in 1..groups |-> b64_ungroup(t, g)], 1, groups))

(* ---- padding.PKCS7(bits).padder() / .unpadder() ---- *)
pkcs7_pad(bits, data) ==
    LET n == bits \div 8
        k == n - (Len(data) % n)
    IN  data \o Rep(k, k)

pkcs7_unpad(bits, data) ==
    LET n == bits \div 8
        len == Len(data)
    IN  IF len = 0 \/ len % n # 0 THEN Raise("ValueError")
        ELSE LET k == data[len] IN
             IF k = 0 \/ k > n THEN Raise("ValueError")
             ELSE IF \E i \in (len - k + 1)..len : data[i] # k THEN Raise("ValueError")
             ELSE Ok(Take(data, len - k))

(* ---- stand-in for Cipher(algorithms.AES(key), modes.CBC(iv)) ---- *)
CipherBlock == Size_BLOCK \div 8

KeyStream(key) ==
    Tuple([j \in 1..CipherBlock |->
             (key[((j - 1) % Len(key)) + 1] + 3 * key[((j + 15) % Len(key)) + 1] + j)
             % 256], CipherBlock)

BlockEncrypt(key, x) == AddBytes(x, KeyStream(key))

BlockDecrypt(key, y) == SubBytes(y, KeyStream(key))

CipherArgsOk(key, iv) == Len(key) \in {16, 24, 32} /\ Len(iv) = CipherBlock

\* encryptor().update(data): every complete block, chained from the IV
RECURSIVE cbc_encrypt_blocks(_, _, _)
cbc_encrypt_blocks(key, prev, data) ==
    IF Len(data) < CipherBlock THEN <<>>
    ELSE LET c == BlockEncrypt(key, XorBytes(Take(data, CipherBlock), prev))
         IN  c \o cbc_encrypt_blocks(key, c, Drop(data, CipherBlock))

\* decryptor().update(data): every complete block; a trailing partial block
\* stays buffered in that context
RECURSIVE cbc_decrypt_blocks(_, _, _)
cbc_decrypt_blocks(key, prev, data) ==
    IF Len(data) < CipherBlock THEN <<>>
    ELSE LET c == Take(data, CipherBlock)
         IN  XorBytes(BlockDecrypt(key, c), prev)
             \o cbc_decrypt_blocks(key, c, Drop(data, CipherBlock))

\* finalize() of a context that was given no data
finalize_fresh == <<>>

(* ---- litecrypt/core/helpers/funcs.py ---- *)
\* a message or an envelope: [t |-> "bytes" | "str", v |-> bytes or code points]
Bytes(v) == [t |-> "bytes", v |-> v]

Str(v) == [t |-> "str", v |-> v]

parse_message(message) ==
    IF message.t = "str" THEN str_encode(message.v)
    ELSE Ok(bytes_strip(message.v))

parse_encrypted_message(message) ==
    IF message.t = "str" THEN
        LET e == str_encode(message.v)
        IN  IF e.ok THEN urlsafe_b64decode(e.v) ELSE e
    ELSE Ok(message.v)

\* os.urandom(n): the c-th draw of an ideal source, never equal to another draw
urandom(n, c) == Tuple([j \in 1..n |-> (c * 17 + j * 3) % 256], n)

\* randomizers that are the same for every instance
cipher_randomizers_fixed(rng) ==
    [iv |-> urandom(Size_IV, 1),
     salt |-> urandom(Size_SALT, 2),
     pepper |-> urandom(Size_PEPPER, 3)]

cipher_randomizers(rng) ==
    [iv |-> urandom(Size_IV, rng + 1),
     salt |-> urandom(Size_SALT, rng + 2),
     pepper |-> urandom(Size_PEPPER, rng + 3)]

\* a range without its upper end
check_iterations_no_max(iterations) ==
    IF iterations < Size_MIN_ITERATIONS
    THEN [ok |-> FALSE, err |-> "IterationsOutofRangeError", v |-> 0]
    ELSE [ok |-> TRUE, err |-> "", v |-> iterations]

\* a range that excludes its two ends
check_iterations_exclusive(iterations) ==
    IF iterations <= Size_MIN_ITERATIONS \/ iterations >= Size_MAX_ITERATIONS
    THEN [ok |-> FALSE, err |-> "IterationsOutofRangeError", v |-> 0]
    ELSE [ok |-> TRUE, err |-> "", v |-> iterations]

check_iterations(iterations) ==
    IF iterations < Size_MIN_ITERATIONS \/ iterations > Size_MAX_ITERATIONS
    THEN [ok |-> FALSE, err |-> "IterationsOutofRangeError", v |-> 0]
    ELSE [ok |-> TRUE, err |-> "", v |-> iterations]

intensive_KDF(mainkey, salt_pepper, iterations) ==
    LET password == str_encode(mainkey)
    IN  IF ~password.ok THEN password
        ELSE bcrypt_kdf(password.v, salt_pepper, Size_AES_KEY, iterations)

\* a derivation from the salt alone
blazingly_fast_KDF_salt_only(key, salt) ==
    LET use_key == str_encode(key)
    IN  IF ~use_key.ok THEN use_key
        ELSE Ok(sha256(salt))

\* a derivation from the key alone
blazingly_fast_KDF_key_only(key, salt) ==
    LET use_key == str_encode(key)
    IN  IF ~use_key.ok THEN use_key
        ELSE Ok(sha256(use_key.v))

blazingly_fast_KDF(key, salt) ==
    LET use_key == str_encode(key)
    IN  IF ~use_key.ok THEN use_key
        ELSE Ok(sha256(use_key.v \o salt))

use_KDF(compute_intensively, key, salt_pepper, iterations) ==
    IF compute_intensively THEN intensive_KDF(key, salt_pepper, iterations)
    ELSE blazingly_fast_KDF(key, salt_pepper)

(* ---- litecrypt/core/_base.py, core/base.py: EncBase ---- *)
DEFAULT_INTENSIVE_COMPUTE == FALSE

\* a key of exactly the minimum length is refused
verify_key_exclusive(key) ==
    LET raw == bytes_fromhex(str_strip(key))
    IN  IF ~raw.ok THEN Raise("ValueError")
        ELSE IF Len(raw.v) <= Size_MAIN_KEY THEN Raise("ValueError")
        ELSE Ok(<<>>)

verify_key(key) ==
    LET raw == bytes_fromhex(str_strip(key))
    IN  IF ~raw.ok THEN Raise("ValueError")
        ELSE IF Len(raw.v) < Size_MAIN_KEY THEN Raise("ValueError")
        ELSE Ok(<<>>)

NoEnc ==
    [status |-> "none", err |-> "", serial |-> 0, message |-> <<>>, mainkey |-> <<>>,
     compute_intensively |-> FALSE, iterations |-> 0,
     iv |-> <<>>, salt |-> <<>>, pepper |-> <<>>,
     enc_key |-> <<>>, hmac_key |-> <<>>, draws |-> 0, log |-> <<>>]

EncRaised(e, err, log) == [e EXCEPT !.status = "raised", !.err = err, !.log = log]

\* EncBase.__init__: the attributes are assigned in source order, an exception
\* leaves the later ones unset; log lists the calls made, draws the urandom calls
EncBase_init(message, mainkey, iterations, compute_intensively, rng) ==
    LET pm == parse_message(message)
        e1 == [NoEnc EXCEPT !.message = pm.v, !.mainkey = mainkey,
                            !.compute_intensively = compute_intensively]
        ci == check_iterations(iterations)
        e2 == [e1 EXCEPT !.iterations = ci.v]
        vk == verify_key(mainkey)
        r  == cipher_randomizers(rng)
        e3 == [e2 EXCEPT !.iv = r.iv, !.salt = r.salt, !.pepper = r.pepper, !.draws = 3]
        ek == use_KDF(compute_intensively, mainkey, r.salt, ci.v)
        e4 == [e3 EXCEPT !.enc_key = ek.v]
        hk == use_KDF(compute_intensively, mainkey, r.pepper, ci.v)
        e5 == [e4 EXCEPT !.hmac_key = hk.v]
        l1 == <<"parse_message">>
        l2 == Append(l1, "check_iterations")
        l3 == Append(l2, "verify_key")
        l4 == Append(l3, "cipher_randomizers")
        l5 == Append(l4, "use_KDF")
        l6 == Append(l5, "use_KDF")
    IN  IF ~pm.ok THEN EncRaised(NoEnc, pm.err, l1)
        ELSE IF ~ci.ok THEN EncRaised(e1, ci.err, l2)
        ELSE IF ~vk.ok THEN EncRaised(e2, vk.err, l3)
        ELSE IF ~ek.ok THEN EncRaised(e3, ek.err, l5)
        ELSE IF ~hk.ok THEN EncRaised(e4, hk.err, l6)
        ELSE [e5 EXCEPT !.status = "ok", !.log = l6]

(* ---- litecrypt/core/crypt.py: Enc ---- *)
padded_message(e) == pkcs7_pad(Size_BLOCK, e.message)

ciphertext(e) ==
    cbc_encrypt_blocks(e.enc_key, e.iv, padded_message(e)) \o finalize_fresh

iterations_bytes(e) == pack_I(e.iterations).v

\* the two signature values exchanged
signtature_KDF_bytes_swapped(e) ==
    LET KDF_method == IF e.compute_intensively = TRUE THEN UseKDF_FAST ELSE UseKDF_SLOW
    IN  pack_I(KDF_method).v

signtature_KDF_bytes(e) ==
    LET KDF_method == IF e.compute_intensively = TRUE THEN UseKDF_SLOW ELSE UseKDF_FAST
    IN  pack_I(KDF_method).v

hmac_final(e) ==
    hmac_sha256(e.hmac_key,
                e.iv \o e.salt \o e.pepper \o iterations_bytes(e)
                \o signtature_KDF_bytes(e) \o ciphertext(e))

encrypt(e, get_bytes) ==
    LET raw == hmac_final(e) \o e.iv \o e.salt \o e.pepper \o iterations_bytes(e)
               \o signtature_KDF_bytes(e) \o ciphertext(e)
    IN  IF get_bytes THEN Bytes(raw) ELSE Str(bytes_decode(urlsafe_b64encode(raw)).v)

(* ---- litecrypt/core/_base.py, core/base.py: DecBase ---- *)
Modules == {"_base", "base"}

\* the offsets of the iteration field and of the ciphertext in an envelope
IterationsOffset == Size_HMAC + Size_IV + Size_SALT + Size_PEPPER

FixedFieldTotal == IterationsOffset + FOR_ITERATIONS + FOR_KDF_SIGNATURE

NoDec ==
    [status |-> "none", err |-> "", module |-> "", src |-> 0,
     message |-> <<>>, key |-> <<>>,
     rec_hmac |-> <<>>, rec_iv |-> <<>>, rec_salt |-> <<>>, rec_pepper |-> <<>>,
     rec_iters_raw |-> <<>>, rec_KDF_signature_raw |-> <<>>,
     rec_iterations |-> 0, rec_KDF_signature |-> 0, rec_ciphertext |-> <<>>,
     dec_key |-> <<>>, hmac_k |-> <<>>, log |-> <<>>,
     calls |-> 0, result |-> Raise(""), result_t |-> "", dlog |-> <<>>]

DecRaised(d, err, log) == [d EXCEPT !.status = "raised", !.err = err, !.log = log]

\* a tag that does not cover the signature bytes
calculated_hmac_no_signature(d) ==
    hmac_sha256(d.hmac_k,
                d.rec_iv \o d.rec_salt \o d.rec_pepper \o d.rec_iters_raw
                \o d.rec_ciphertext)

calculated_hmac(d) ==
    hmac_sha256(d.hmac_k,
                d.rec_iv \o d.rec_salt \o d.rec_pepper \o d.rec_iters_raw
                \o d.rec_KDF_signature_raw \o d.rec_ciphertext)

\* a comparison of the first half of the tag only
verify_hmac_prefix(d) ==
    Take(calculated_hmac(d), Size_HMAC \div 2) = Take(d.rec_hmac, Size_HMAC \div 2)

\* a comparison that is never made
verify_hmac_always(d) == TRUE

\* hmac.compare_digest: equal length and equal content
verify_hmac(d) == calculated_hmac(d) = d.rec_hmac

\* DecBase.__init__ of core/_base.py (check_iterations wraps the first unpack) and
\* of core/base.py (both fields are unpacked before check_iterations is called)
DecBase_verify(d5, l7) ==
    IF verify_hmac(d5) = FALSE THEN DecRaised(d5, "MessageTamperingError", l7)
    ELSE [d5 EXCEPT !.status = "ok", !.log = l7]

\* dec_key and hmac_k are assigned in this order
DecBase_keys(d3, dk, hk, l4) ==
    IF ~dk.ok THEN DecRaised(d3, dk.err, Append(l4, "use_KDF"))
    ELSE IF ~hk.ok
    THEN DecRaised([d3 EXCEPT !.dec_key = dk.v], hk.err, l4 \o <<"use_KDF", "use_KDF">>)
    ELSE DecBase_verify([d3 EXCEPT !.dec_key = dk.v, !.hmac_k = hk.v],
                        l4 \o <<"use_KDF", "use_KDF", "verify_hmac">>)

DecBase_derive(d3, compute_intensively, l4) ==
    DecBase_keys(d3,
                 use_KDF(compute_intensively, d3.key, d3.rec_salt, d3.rec_iterations),
                 use_KDF(compute_intensively, d3.key, d3.rec_pepper, d3.rec_iterations),
                 l4)

DecBase_ciphertext(d2, l4) ==
    DecBase_derive([d2 EXCEPT !.rec_ciphertext = Drop(d2.message, FixedFieldTotal)],
                   d2.rec_KDF_signature = UseKDF_SLOW, l4)

\* _base.py sets rec_iterations from check_iterations before it unpacks the
\* signature, base.py unpacks both fields and then calls check_iterations
DecBase_unpack(d1, ui, us, ci) ==
    LET l2 == <<"parse_encrypted_message", "unpack">>
    IN  IF ~ui.ok THEN DecRaised(d1, ui.err, l2)
        ELSE IF d1.module = "_base" THEN
            IF ~ci.ok THEN DecRaised(d1, ci.err, Append(l2, "check_iterations"))
            ELSE IF ~us.ok
            THEN DecRaised([d1 EXCEPT !.rec_iterations = ui.v], us.err,
                           l2 \o <<"check_iterations", "unpack">>)
            ELSE DecBase_ciphertext([d1 EXCEPT !.rec_iterations = ui.v,
                                               !.rec_KDF_signature = us.v],
                                    l2 \o <<"check_iterations", "unpack">>)
        ELSE
            IF ~us.ok
            THEN DecRaised([d1 EXCEPT !.rec_iterations = ui.v], us.err, Append(l2, "unpack"))
            ELSE IF ~ci.ok
            THEN DecRaised([d1 EXCEPT !.rec_iterations = ui.v,
                                      !.rec_KDF_signature = us.v],
                           ci.err, l2 \o <<"unpack", "check_iterations">>)
            ELSE DecBase_ciphertext([d1 EXCEPT !.rec_iterations = ui.v,
                                               !.rec_KDF_signature = us.v],
                                    l2 \o <<"unpack", "check_iterations">>)

DecBase_checked(d1, ui, us) == DecBase_unpack(d1, ui, us, check_iterations(ui.v))

DecBase_sliced(d1) ==
    DecBase_checked(d1, unpack_I(d1.rec_iters_raw), unpack_I(d1.rec_KDF_signature_raw))

DecBase_slices(m, mainkey, module) ==
    LET _h == Size_HMAC
        _i == Size_IV
        _s == Size_SALT
        _p == Size_PEPPER
        _fi == FOR_ITERATIONS
        _fk == FOR_KDF_SIGNATURE
    IN  [NoDec EXCEPT
           !.module = module, !.message = m, !.key = mainkey,
           !.rec_hmac = Slice(m, 0, _h),
           !.rec_iv = Slice(m, _h, _h + _i),
           !.rec_salt = Slice(m, _h + _i, _h + _i + _s),
           !.rec_pepper = Slice(m, _h + _i + _s, _h + _i + _s + _p),
           !.rec_iters_raw =
               Slice(m, _h + _i + _s + _p, _h + _i + _s + _p + _fi),
           !.rec_KDF_signature_raw =
               Slice(m, _h + _i + _s + _p + _fi, _h + _i + _s + _p + _fi + _fk)]

DecBase_parsed(pm, mainkey, module) ==
    IF ~pm.ok
    THEN DecRaised([NoDec EXCEPT !.module = module], pm.err, <<"parse_encrypted_message">>)
    ELSE DecBase_sliced(DecBase_slices(pm.v, mainkey, module))

\* DecBase.__init__: the attributes are assigned in source order, an exception
\* leaves the later ones unset; log lists the calls made
DecBase_init(message, mainkey, module) ==
    DecBase_parsed(parse_encrypted_message(message), mainkey, module)

(* ---- litecrypt/core/crypt.py: Dec ---- *)
pre_unpadding(d) ==
    IF ~CipherArgsOk(d.dec_key, d.rec_iv) THEN Raise("ValueError")
    ELSE Ok(cbc_decrypt_blocks(d.dec_key, d.rec_iv, d.rec_ciphertext)
            \o finalize_fresh)

unpadded_message(d) ==
    LET pre == pre_unpadding(d)
    IN  IF ~pre.ok THEN pre ELSE pkcs7_unpad(Size_BLOCK, pre.v)

\* Dec.decrypt: the bytes, or by default their UTF-8 text
decrypt(d, get_bytes) ==
    LET raw == unpadded_message(d)
    IN  IF ~raw.ok THEN raw
        ELSE IF get_bytes THEN raw
        ELSE bytes_decode(raw.v)

decrypt_log(d) ==
    IF ~pre_unpadding(d).ok THEN <<"cipher">> ELSE <<"cipher", "unpad">>

(* ---- litecrypt/core/datacrypt.py: Crypt (over EncBase, DecBase of core/base.py) ---- *)
KeyBytesExact == 32

\* Crypt.key_verify: 1, 0 (hex of another length) or -1 (not hex)
key_verify(key) ==
    LET a == bytes_fromhex(str_strip(key))
    IN  IF ~a.ok THEN -1
        ELSE IF Len(a.v) = KeyBytesExact THEN 1
        ELSE 0

\* whitespace alone taken for no content
Truthy_stripped(data) == Len(Strip(data.v, AsciiSpace)) > 0

\* "if self.data": a str or bytes value is true when it is not empty
Truthy(data) == Len(data.v) > 0

\* out: what the last encrypt()/decrypt() call gave the caller; cause: the
\* exception CryptError was raised from
NoOut == [op |-> "none", status |-> "none", err |-> "", cause |-> "", v |-> Bytes(<<>>)]

NoCrypt ==
    [status |-> "none", err |-> "", data |-> Bytes(<<>>), key |-> <<>>,
     intensive_compute |-> FALSE, iteration_rounds |-> 0, out |-> NoOut]

\* Crypt(data, key, intensive_compute, iteration_rounds) with __post_init__
Crypt_init(data, key, intensive_compute, iteration_rounds) ==
    LET c == [NoCrypt EXCEPT !.data = data, !.key = key,
                             !.intensive_compute = intensive_compute,
                             !.iteration_rounds = iteration_rounds]
    IN  IF key_verify(key) # 1
        THEN [c EXCEPT !.status = "raised", !.err = "KeyLengthError"]
        ELSE [c EXCEPT !.status = "ok"]

\* Crypt.encrypt(get_bytes): out is what the caller gets, ins the EncBase built
Crypt_encrypt(c, get_bytes, rng) ==
    IF Truthy(c.data) THEN
        LET ins == EncBase_init(c.data, c.key, c.iteration_rounds,
                                c.intensive_compute, rng)
        IN  IF ins.status = "raised"
            THEN [ins |-> ins,
                  out |-> [NoOut EXCEPT !.op = "encrypt", !.status = "raised",
                                        !.err = "CryptError", !.cause = ins.err]]
            ELSE [ins |-> ins,
                  out |-> [NoOut EXCEPT !.op = "encrypt", !.status = "ok",
                                        !.v = encrypt(ins, get_bytes)]]
    ELSE [ins |-> NoEnc,
          out |-> [NoOut EXCEPT !.op = "encrypt", !.status = "raised",
                                !.err = "EmptyContentError"]]

\* Crypt.decrypt(get_bytes): out is what the caller gets, dec_instance the
\* DecBase built, with the decrypt() call made on it
Crypt_decrypt(c, get_bytes) ==
    IF Truthy(c.data) THEN
        LET d == DecBase_init(c.data, c.key, "base")
            r == decrypt(d, get_bytes)
            called == [d EXCEPT !.calls = 1, !.result = r,
                                !.result_t = IF get_bytes THEN "bytes" ELSE "str",
                                !.dlog = decrypt_log(d)]
        IN  IF d.status = "raised"
            THEN [dec_instance |-> d,
                  out |-> [NoOut EXCEPT !.op = "decrypt", !.status = "raised",
                                        !.err = "CryptError", !.cause = d.err]]
            ELSE IF ~r.ok
            THEN [dec_instance |-> called,
                  out |-> [NoOut EXCEPT !.op = "decrypt", !.status = "raised",
                                        !.err = "CryptError", !.cause = r.err]]
            ELSE [dec_instance |-> called,
                  out |-> [NoOut EXCEPT !.op = "decrypt", !.status = "ok",
                                        !.v = IF get_bytes THEN Bytes(r.v) ELSE Str(r.v)]]
    ELSE [dec_instance |-> NoDec,
          out |-> [NoOut EXCEPT !.op = "decrypt", !.status = "raised",
                                !.err = "EmptyContentError"]]

(* ---- litecrypt/core/filecrypt.py: CryptFile (over EncBase, DecBase of core/base.py) ---- *)
\* a path is its stem followed by its extensions: f.crypt is <<"f", ".crypt">>
splitext(path) ==
    IF Len(path) > 1 THEN <<SubSeq(path, 1, Len(path) - 1), path[Len(path)]>>
    ELSE <<path, "">>

\* what a path names: nothing, a directory, or a regular file and its bytes
Absent == [kind |-> "none", content |-> <<>>]

Directory == [kind |-> "dir", content |-> <<>>]

RegularFile(content) == [kind |-> "file", content |-> content]

isdir(fs, path) == fs[path].kind = "dir"

exists(fs, path) == fs[path].kind # "none"

\* open(path, "wb"): the file is created or cut to length 0
open_wb(fs, path) == [fs EXCEPT ![path] = RegularFile(<<>>)]

\* f.write(content) and the close of the with block
write_close(fs, path, content) == [fs EXCEPT ![path] = RegularFile(content)]

\* os.rename(src, dst) for a regular file src: dst is replaced, onto a directory
\* it is an OSError
rename(fs, src, dst) ==
    IF isdir(fs, dst) THEN Raise("OSError")
    ELSE Ok([fs EXCEPT ![dst] = fs[src], ![src] = Absent])

\* "if not self.key_verify(self.key)" raises for 0 alone: -1 is true
key_accepted(key) == key_verify(key) # 0

\* serial: the number of the object among those constructed;
\* pc: "idle" before a call, "read" once the content is read, "open" once the file
\* is open for writing, "written" once the new content is in it, "done" at the end;
\* fs0: the file system when the call began; out: what the call gave the caller
NoFileOut == [status |-> "none", err |-> "", cause |-> "", v |-> 0]

NoCryptFile ==
    [status |-> "none", err |-> "", serial |-> 0, filename |-> <<>>, key |-> <<>>,
     intensive_compute |-> FALSE, iteration_rounds |-> 0,
     op |-> "none", pc |-> "idle", file_content |-> <<>>, new_content |-> <<>>,
     fs0 |-> <<>>, out |-> NoFileOut]

\* CryptFile(filename, key, intensive_compute, iteration_rounds) with __post_init__
CryptFile_init(filename, key, intensive_compute, iteration_rounds) ==
    LET c == [NoCryptFile EXCEPT !.filename = filename, !.key = key,
                                 !.intensive_compute = intensive_compute,
                                 !.iteration_rounds = iteration_rounds]
    IN  IF ~key_accepted(key)
        THEN [c EXCEPT !.status = "raised", !.err = "KeyLengthError"]
        ELSE [c EXCEPT !.status = "ok"]

FileRaised(c, err, cause) ==
    [c EXCEPT !.pc = "done",
              !.out = [NoFileOut EXCEPT !.status = "raised", !.err = err, !.cause = cause]]

\* the checks with the one on the extension first
CryptFile_begin_extension_first(c, op, fs) ==
    LET c1 == [c EXCEPT !.op = op, !.fs0 = fs]
        ext == splitext(c.filename)[2]
    IN  IF op = "encrypt" /\ ext = ".crypt"
        THEN FileRaised(c1, "AlreadyEncryptedError", "")
        ELSE IF op = "decrypt" /\ ext # ".crypt"
        THEN FileRaised(c1, "AlreadyDecryptedError", "")
        ELSE IF isdir(fs, c.filename) THEN FileRaised(c1, "GivenDirectoryError", "")
        ELSE IF ~exists(fs, c.filename) THEN FileRaised(c1, "FileDoesNotExistError", "")
        ELSE [c1 EXCEPT !.pc = "read", !.file_content = fs[c.filename].content]

\* the three checks at the head of encrypt() and of decrypt(), then the read
CryptFile_begin(c, op, fs) ==
    LET c1 == [c EXCEPT !.op = op, !.fs0 = fs]
        ext == splitext(c.filename)[2]
    IN  IF isdir(fs, c.filename) THEN FileRaised(c1, "GivenDirectoryError", "")
        ELSE IF ~exists(fs, c.filename) THEN FileRaised(c1, "FileDoesNotExistError", "")
        ELSE IF op = "encrypt" /\ ext = ".crypt"
        THEN FileRaised(c1, "AlreadyEncryptedError", "")
        ELSE IF op = "decrypt" /\ ext # ".crypt"
        THEN FileRaised(c1, "AlreadyDecryptedError", "")
        ELSE [c1 EXCEPT !.pc = "read", !.file_content = fs[c.filename].content]

\* encrypt() from the EncBase built to the end of the with block: the envelope is
\* written, or the content read is written back and FileCryptError raised
CryptFile_encrypted(c, fs, ins) ==
    IF ins.status = "raised"
    THEN [c |-> FileRaised(c, "FileCryptError", ins.err),
          fs |-> write_close(fs, c.filename, c.file_content), ins |-> ins]
    ELSE [c |-> [c EXCEPT !.pc = "written", !.new_content = encrypt(ins, TRUE).v],
          fs |-> write_close(fs, c.filename, encrypt(ins, TRUE).v), ins |-> ins]

CryptFile_encrypt_body(c, fs, rng) ==
    IF Len(c.file_content) > 0
    THEN CryptFile_encrypted(c, fs,
                             EncBase_init(Bytes(c.file_content), c.key, c.iteration_rounds,
                                          c.intensive_compute, rng))
    ELSE [c |-> FileRaised(c, "EmptyContentError", ""),
          fs |-> write_close(fs, c.filename, c.file_content), ins |-> NoEnc]

\* decrypt() from the plaintext ins.decrypt(get_bytes=True) gave
CryptFile_plain(c, fs, ins, a) ==
    IF ~a.ok
    THEN [c |-> FileRaised(c, "FileCryptError", a.err),
          fs |-> write_close(fs, c.filename, c.file_content), ins |-> ins]
    ELSE [c |-> [c EXCEPT !.pc = "written", !.new_content = a.v],
          fs |-> write_close(fs, c.filename, a.v), ins |-> ins]

\* the except branch without its f.write(enc_content)
CryptFile_decrypted_no_write_back(c, fs, ins) ==
    IF ins.status = "raised"
    THEN [c |-> FileRaised(c, "FileCryptError", ins.err), fs |-> fs, ins |-> ins]
    ELSE CryptFile_plain(c, fs, ins, decrypt(ins, TRUE))

CryptFile_decrypted(c, fs, ins) ==
    IF ins.status = "raised"
    THEN [c |-> FileRaised(c, "FileCryptError", ins.err),
          fs |-> write_close(fs, c.filename, c.file_content), ins |-> ins]
    ELSE CryptFile_plain(c, fs, ins, decrypt(ins, TRUE))

CryptFile_decrypt_body(c, fs) ==
    IF Len(c.file_content) = 0
    THEN [c |-> FileRaised(c, "EmptyContentError", ""),
          fs |-> write_close(fs, c.filename, c.file_content), ins |-> NoDec]
    ELSE CryptFile_decrypted(c, fs, DecBase_init(Bytes(c.file_content), c.key, "base"))

\* the name after the call: filename + ".crypt", or the name without its extension
new_filename(c) ==
    IF c.op = "encrypt" THEN Append(c.filename, ".crypt") ELSE splitext(c.filename)[1]

\* os.rename and "return 1"; an OSError leaves the with block behind and is
\* raised as SysError
CryptFile_renamed(c, fs, moved) ==
    IF ~moved.ok
    THEN [c |-> FileRaised(c, "SysError", moved.err), fs |-> fs]
    ELSE [c |-> [c EXCEPT !.pc = "done",
                          !.out = [NoFileOut EXCEPT !.status = "returned", !.v = 1]],
          fs |-> moved.v]

CryptFile_rename(c, fs) == CryptFile_renamed(c, fs, rename(fs, c.filename, new_filename(c)))

(* ---- the callers' inputs ---- *)
\* b"hello", b" hi\n", "hi ", "é", b"\xff", b"", b" ", b"0123456789abcdef", ""
MessageCatalog ==
    { Bytes(<<104, 101, 108, 108, 111>>),
      Bytes(<<32, 104, 105, 10>>),
      Str(<<104, 105, 32>>),
      Str(<<233>>),
      Bytes(<<255>>),
      Bytes(<<>>),
      Bytes(<<32>>),
      Bytes(<<48, 49, 50, 51, 52, 53, 54, 55, 56, 57, 97, 98, 99, 100, 101, 102>>),
      Str(<<>>) }

Pairs(a, b, n) == Tuple([i \in 1..(2 * n) |-> IF i % 2 = 1 THEN a ELSE b], 2 * n)

KeyZero == Rep(48, 64)
KeyLower == Pairs(97, 98, 32)
KeyUpper == Pairs(65, 66, 32)
KeyPadded == <<32>> \o KeyLower \o <<10>>
KeySpaced == Pairs(97, 98, 16) \o <<32>> \o Pairs(97, 98, 16)
KeyLong == Rep(48, 66)
KeyShort == Rep(48, 62)
KeyOdd == Rep(48, 63)
KeySplit == <<97, 32, 98>> \o Pairs(97, 98, 31)
KeyNonHex == Rep(122, 64)
KeyEmpty == <<>>
KeySurrogate == <<55296>>

KeyCatalog ==
    { KeyZero, KeyLower, KeyUpper, KeyPadded, KeySpaced, KeyLong,
      KeyShort, KeyOdd, KeySplit, KeyNonHex, KeyEmpty, KeySurrogate }

IterationsCatalog == {49, 50, 1000000, 1000001}

MessageBase == Bytes(<<104, 101, 108, 108, 111>>)

\* every message under one key, every key on one message, and every iteration
\* count with a well-formed and an ill-formed key
ArgsMessages ==
    [message : MessageCatalog, mainkey : {KeyLower},
     iterations : {Size_MIN_ITERATIONS}, compute_intensively : BOOLEAN]

ArgsKeys ==
    [message : {MessageBase}, mainkey : KeyCatalog,
     iterations : {Size_MIN_ITERATIONS}, compute_intensively : BOOLEAN]

ArgsIterations ==
    [message : {MessageBase}, mainkey : {KeyLower, KeyNonHex},
     iterations : IterationsCatalog, compute_intensively : BOOLEAN]

\* a file f, its encrypted name, two directories and a name that is never used
Paths == { <<"f">>, <<"f", ".crypt">>, <<"d">>, <<"d", ".crypt">>, <<"m">> }

NoFs == [path \in Paths |-> Absent]

(* ---- state ---- *)
VARIABLES
    args,      \* what the encrypting caller passes to Enc(...)
    keyring,   \* the key strings the decrypting caller may pass to Dec(...)
    rng,       \* number of os.urandom draws so far
    enc,       \* the Enc instance last constructed
    wire,      \* the envelope encrypt() returned last, as it reaches the decryptor
    dec,       \* the Dec instance of the current exchange, with its last decrypt()
    crypt,     \* the Crypt object last constructed, with its last call
    fs,        \* the file system: what each path names
    cryptfile, \* the CryptFile object last constructed, with its call in progress
    ops,       \* operations on separate instances that run interleaved
    derived    \* the calls of use_KDF made so far, with what they returned

vars == <<args, keyring, rng, enc, wire, dec, crypt, fs, cryptfile, ops, derived>>

MaxEnc == 2

\* by: the serial of the Enc instance that made the envelope (0: none yet);
\* touch: what was done to it on the way; last: the envelope returned before it
NoEnvelope ==
    [env |-> Bytes(<<>>), by |-> 0, touch |-> <<>>,
     last |-> [env |-> Bytes(<<>>), by |-> 0]]

Init ==
    /\ \/ args \in ArgsMessages \cup ArgsIterations /\ keyring = {args.mainkey}
       \/ args \in ArgsKeys /\ keyring = KeyCatalog
    /\ rng = 0
    /\ enc = NoEnc
    /\ wire = NoEnvelope
    /\ dec = NoDec
    /\ crypt = NoCrypt
    /\ fs = NoFs
    /\ cryptfile = NoCryptFile
    /\ ops = <<>>
    /\ derived = <<>>

\* Enc(message, mainkey, iterations=..., compute_intensively=...): a new exchange,
\* the Dec instance of the previous one is dropped
NewEnc ==
    /\ enc.serial < MaxEnc
    /\ LET e == EncBase_init(args.message, args.mainkey, args.iterations,
                             args.compute_intensively, rng)
       IN  /\ enc' = [e EXCEPT !.serial = enc.serial + 1]
           /\ rng' = rng + e.draws
    /\ dec' = NoDec
    /\ UNCHANGED <<args, keyring, wire, crypt, fs, cryptfile, ops, derived>>

\* an encrypt() that draws a new IV into the instance before it builds the envelope
Encrypt_refreshing(get_bytes) ==
    /\ enc.status = "ok"
    /\ dec.status = "none"
    /\ enc' = [enc EXCEPT !.iv = urandom(Size_IV, rng + 1)]
    /\ rng' = rng + 1
    /\ wire' = [env |-> encrypt(enc', get_bytes), by |-> enc.serial, touch |-> <<>>,
                last |-> [env |-> wire.env, by |-> wire.by]]
    /\ UNCHANGED <<args, keyring, dec, crypt, fs, cryptfile, ops, derived>>

\* enc.encrypt(get_bytes): the instance is left as it was
Encrypt(get_bytes) ==
    /\ enc.status = "ok"
    /\ dec.status = "none"
    /\ wire' = [env |-> encrypt(enc, get_bytes), by |-> enc.serial, touch |-> <<>>,
                last |-> [env |-> wire.env, by |-> wire.by]]
    /\ UNCHANGED <<args, keyring, rng, enc, dec, crypt, fs, cryptfile, ops, derived>>

\* Dec(message, mainkey) of the given module on the envelope on the wire
NewDec(key, module) ==
    /\ wire.by > 0
    /\ dec.status = "none"
    /\ dec' = [DecBase_init(wire.env, key, module) EXCEPT !.src = wire.by]
    /\ UNCHANGED <<args, keyring, rng, enc, wire, crypt, fs, cryptfile, ops, derived>>

\* dec.decrypt(get_bytes)
Decrypt(get_bytes) ==
    /\ dec.status = "ok"
    /\ dec' = [dec EXCEPT !.calls = 1,
                          !.result = decrypt(dec, get_bytes),
                          !.result_t = IF get_bytes THEN "bytes" ELSE "str",
                          !.dlog = decrypt_log(dec)]
    /\ UNCHANGED <<args, keyring, rng, enc, wire, crypt, fs, cryptfile, ops, derived>>

Next ==
    \/ NewEnc
    \/ \E get_bytes \in BOOLEAN : Encrypt(get_bytes)
    \/ \E key \in keyring : NewDec(key, "_base")
    \/ \E get_bytes \in BOOLEAN : Decrypt(get_bytes)

Spec == Init /\ [][Next]_vars

(* ---- a hostile channel between encrypt() and Dec(...) ---- *)
ArgsHostile ==
    [message : {MessageBase}, mainkey : {KeyLower},
     iterations : {Size_MIN_ITERATIONS, Size_MAX_ITERATIONS},
     compute_intensively : BOOLEAN]

\* Enc(message, mainkey, iterations, compute_intensively).encrypt(get_bytes=True)
\* has returned and the envelope is on its way
InitHostile ==
    /\ args \in ArgsHostile
    /\ keyring = {args.mainkey}
    /\ LET e == EncBase_init(args.message, args.mainkey, args.iterations,
                             args.compute_intensively, 0)
       IN  /\ enc = [e EXCEPT !.serial = 1]
           /\ rng = e.draws
           /\ wire = [NoEnvelope EXCEPT !.env = encrypt(e, TRUE), !.by = 1]
    /\ dec = NoDec
    /\ crypt = NoCrypt
    /\ fs = NoFs
    /\ cryptfile = NoCryptFile
    /\ ops = <<>>
    /\ derived = <<>>

BitMask == <<1, 2, 4, 8, 16, 32, 64, 128>>

\* the iteration fields a hostile sender writes: 0, 49, 51, 1000001, 0xFFFFFFFF
IterationFields ==
    { pack_I(0).v, pack_I(Size_MIN_ITERATIONS - 1).v, pack_I(Size_MIN_ITERATIONS + 1).v,
      pack_I(Size_MAX_ITERATIONS + 1).v, Rep(255, FOR_ITERATIONS) }

\* one bit of the envelope is inverted
Flip(pos, bit) ==
    /\ dec.status = "none"
    /\ wire.touch = <<>>
    /\ pos \in 1..Len(wire.env.v)
    /\ wire' = [wire EXCEPT
                  !.env.v = Tuple([wire.env.v EXCEPT
                                     ![pos] = XorByte(wire.env.v[pos], BitMask[bit])],
                                  Len(wire.env.v)),
                  !.touch = <<"flip">>]
    /\ UNCHANGED <<args, keyring, rng, enc, dec, crypt, fs, cryptfile, ops, derived>>

\* the four iteration bytes are overwritten (src/tests/crypt/test_base.py, 39-47)
SetIterations(field) ==
    /\ dec.status = "none"
    /\ wire.touch = <<>>
    /\ Slice(wire.env.v, IterationsOffset, IterationsOffset + FOR_ITERATIONS) # field
    /\ wire' = [wire EXCEPT
                  !.env.v = Take(wire.env.v, IterationsOffset) \o field
                            \o Drop(wire.env.v, IterationsOffset + FOR_ITERATIONS),
                  !.touch = <<"iterations">>]
    /\ UNCHANGED <<args, keyring, rng, enc, dec, crypt, fs, cryptfile, ops, derived>>

\* only the first n bytes arrive
Truncate(n) ==
    /\ dec.status = "none"
    /\ wire.touch \in {<<>>, <<"iterations">>}
    /\ n < Len(wire.env.v)
    /\ wire' = [wire EXCEPT !.env.v = Take(wire.env.v, n),
                            !.touch = Append(wire.touch, "truncate")]
    /\ UNCHANGED <<args, keyring, rng, enc, dec, crypt, fs, cryptfile, ops, derived>>

NextHostile ==
    \/ \E pos \in 1..Len(wire.env.v), bit \in 1..8 : Flip(pos, bit)
    \/ \E field \in IterationFields : SetIterations(field)
    \/ \E n \in 0..Len(wire.env.v) : Truncate(n)
    \/ \E key \in keyring, module \in Modules : NewDec(key, module)
    \/ \E get_bytes \in BOOLEAN : Decrypt(get_bytes)

SpecHostile == InitHostile /\ [][NextHostile]_vars

(* ---- callers that go through Crypt ---- *)
\* b"hello", "hi ", "", b"", b" " with the default parameters, and b"hello" with
\* every iteration count
ArgsCrypt ==
    [message : {MessageBase, Str(<<104, 105, 32>>), Str(<<>>), Bytes(<<>>), Bytes(<<32>>)},
     mainkey : {KeyLower}, iterations : {Size_MIN_ITERATIONS},
     compute_intensively : BOOLEAN]
    \cup
    [message : {MessageBase}, mainkey : {KeyLower},
     iterations : IterationsCatalog, compute_intensively : {FALSE}]

InitCrypt ==
    /\ args \in ArgsCrypt
    /\ keyring = {args.mainkey, KeyUpper, KeyLong}
    /\ rng = 0
    /\ enc = NoEnc
    /\ wire = NoEnvelope
    /\ dec = NoDec
    /\ crypt = NoCrypt
    /\ fs = NoFs
    /\ cryptfile = NoCryptFile
    /\ ops = <<>>
    /\ derived = <<>>

\* Crypt(data, key, intensive_compute=..., iteration_rounds=...) on the caller's
\* message or on the envelope received, once the object before it has been used
NewCrypt(data, key) ==
    /\ crypt.status = "ok" => crypt.out.op # "none"
    /\ data = args.message \/ (wire.by > 0 /\ data = wire.env)
    /\ crypt' = Crypt_init(data, key, args.compute_intensively, args.iterations)
    /\ UNCHANGED <<args, keyring, rng, enc, wire, dec, fs, cryptfile, ops, derived>>

\* crypt.encrypt(get_bytes) by the sender on its message: enc is the EncBase built
CryptEncrypt(get_bytes) ==
    /\ crypt.status = "ok"
    /\ crypt.out.op = "none"
    /\ crypt.data = args.message
    /\ crypt.key = args.mainkey
    /\ enc.serial < MaxEnc
    /\ LET got == Crypt_encrypt(crypt, get_bytes, rng)
       IN  /\ crypt' = [crypt EXCEPT !.out = got.out]
           /\ IF Truthy(crypt.data)
              THEN /\ enc' = [got.ins EXCEPT !.serial = enc.serial + 1]
                   /\ rng' = rng + got.ins.draws
              ELSE UNCHANGED <<enc, rng>>
           /\ IF got.out.status = "ok"
              THEN wire' = [env |-> got.out.v, by |-> enc.serial + 1, touch |-> <<>>,
                            last |-> [env |-> wire.env, by |-> wire.by]]
              ELSE UNCHANGED wire
    /\ dec' = NoDec
    /\ UNCHANGED <<args, keyring, fs, cryptfile, ops, derived>>

\* crypt.decrypt(get_bytes): dec is the DecBase built
CryptDecrypt(get_bytes) ==
    /\ crypt.status = "ok"
    /\ crypt.out.op = "none"
    /\ LET got == Crypt_decrypt(crypt, get_bytes)
       IN  /\ crypt' = [crypt EXCEPT !.out = got.out]
           /\ dec' = got.dec_instance
    /\ UNCHANGED <<args, keyring, rng, enc, wire, fs, cryptfile, ops, derived>>

NextCrypt ==
    \/ \E data \in {args.message, wire.env}, key \in keyring : NewCrypt(data, key)
    \/ \E get_bytes \in BOOLEAN : CryptEncrypt(get_bytes)
    \/ \E get_bytes \in BOOLEAN : CryptDecrypt(get_bytes)

SpecCrypt == InitCrypt /\ [][NextCrypt]_vars

(* ---- callers that go through CryptFile ---- *)
\* the file holds b"hello", b"hi\n", b"" or b" "; b"hello" also with an iteration
\* count out of range and with the cost-intensive derivation
FileContents == { <<104, 101, 108, 108, 111>>, <<104, 105, 10>>, <<>>, <<32>> }

ArgsFile ==
    [message : {Bytes(c) : c \in FileContents}, mainkey : {KeyLower},
     iterations : {Size_MIN_ITERATIONS}, compute_intensively : {FALSE}]
    \cup
    [message : {MessageBase}, mainkey : {KeyLower},
     iterations : {Size_MIN_ITERATIONS - 1}, compute_intensively : {FALSE}]
    \cup
    [message : {MessageBase}, mainkey : {KeyLower},
     iterations : {Size_MIN_ITERATIONS}, compute_intensively : {TRUE}]

\* what f.crypt names at the start: nothing, an empty file, or bytes that are no envelope
StrayFiles == { Absent, RegularFile(<<>>), RegularFile(<<106, 117, 110, 107>>) }

\* the objects constructed: every path with the key of the file's owner, and the
\* file and its encrypted name with every other key
FileCalls ==
    { <<path, key>> \in Paths \X keyring :
          key = args.mainkey \/ path \in {<<"f">>, <<"f", ".crypt">>} }

MaxCalls == 2

InitFile ==
    /\ args \in ArgsFile
    /\ keyring = {args.mainkey, KeyUpper, KeyNonHex, KeyShort}
    /\ rng = 0
    /\ enc = NoEnc
    /\ wire = NoEnvelope
    /\ dec = NoDec
    /\ crypt = NoCrypt
    /\ \E stray \in StrayFiles :
           /\ stray # Absent => args.message = MessageBase /\ args.iterations = Size_MIN_ITERATIONS
           /\ fs = [NoFs EXCEPT ![<<"f">>] = RegularFile(args.message.v),
                             ![<<"f", ".crypt">>] = stray,
                             ![<<"d">>] = Directory,
                             ![<<"d", ".crypt">>] = Directory]
    /\ cryptfile = NoCryptFile
    /\ ops = <<>>
    /\ derived = <<>>

\* CryptFile(filename, key, intensive_compute=..., iteration_rounds=...), once the
\* call of the object before it is over
NewCryptFile(filename, key) ==
    /\ cryptfile.pc \in {"idle", "done"}
    /\ cryptfile.status = "ok" => cryptfile.op # "none"
    /\ cryptfile.serial < MaxCalls
    /\ cryptfile' = [CryptFile_init(filename, key, args.compute_intensively,
                                    args.iterations)
                        EXCEPT !.serial = cryptfile.serial + 1]
    /\ UNCHANGED <<args, keyring, rng, enc, wire, dec, crypt, fs, ops, derived>>

\* cryptfile.encrypt() or cryptfile.decrypt() up to the read of the file
FileBegin(op) ==
    /\ cryptfile.status = "ok"
    /\ cryptfile.op = "none"
    /\ op = "encrypt" => enc.serial < MaxEnc
    /\ cryptfile' = CryptFile_begin(cryptfile, op, fs)
    /\ UNCHANGED <<args, keyring, rng, enc, wire, dec, crypt, fs, ops, derived>>

\* open(self.filename, "wb")
FileOpen ==
    /\ cryptfile.pc = "read"
    /\ fs' = open_wb(fs, cryptfile.filename)
    /\ cryptfile' = [cryptfile EXCEPT !.pc = "open"]
    /\ UNCHANGED <<args, keyring, rng, enc, wire, dec, crypt, ops, derived>>

\* the body of the with block of encrypt(): enc is the EncBase built
FileEncrypt ==
    /\ cryptfile.pc = "open"
    /\ cryptfile.op = "encrypt"
    /\ LET got == CryptFile_encrypt_body(cryptfile, fs, rng)
       IN  /\ cryptfile' = got.c
           /\ fs' = got.fs
           /\ IF got.ins.status # "none"
              THEN /\ enc' = [got.ins EXCEPT !.serial = enc.serial + 1]
                   /\ rng' = rng + got.ins.draws
              ELSE UNCHANGED <<enc, rng>>
    /\ UNCHANGED <<args, keyring, wire, dec, crypt, ops, derived>>

\* the body of the with block of decrypt(): dec is the DecBase built
FileDecrypt ==
    /\ cryptfile.pc = "open"
    /\ cryptfile.op = "decrypt"
    /\ LET got == CryptFile_decrypt_body(cryptfile, fs)
       IN  /\ cryptfile' = got.c
           /\ fs' = got.fs
           /\ dec' = got.ins
    /\ UNCHANGED <<args, keyring, rng, enc, wire, crypt, ops, derived>>

\* os.rename(self.filename, new_filename) and the return
FileRename ==
    /\ cryptfile.pc = "written"
    /\ LET got == CryptFile_rename(cryptfile, fs)
       IN  /\ cryptfile' = got.c
           /\ fs' = got.fs
    /\ UNCHANGED <<args, keyring, rng, enc, wire, dec, crypt, ops, derived>>

\* the process is killed inside the call: nothing more of the call runs
FileInterrupt ==
    /\ cryptfile.pc \in {"read", "open", "written"}
    /\ cryptfile' = [cryptfile EXCEPT !.pc = "done", !.out.status = "interrupted"]
    /\ UNCHANGED <<args, keyring, rng, enc, wire, dec, crypt, fs, ops, derived>>

NextFile ==
    \/ \E call \in FileCalls : NewCryptFile(call[1], call[2])
    \/ \E op \in {"encrypt", "decrypt"} : FileBegin(op)
    \/ FileOpen
    \/ FileEncrypt
    \/ FileDecrypt
    \/ FileRename
    \/ FileInterrupt

SpecFile == InitFile /\ [][NextFile]_vars

(* ---- operations on separate instances, run interleaved ---- *)
MaxOps == 2

\* the envelope the decrypting operations are handed, made with the draws 1..3
SentEnvelope ==
    encrypt(EncBase_init(MessageBase, KeyLower, Size_MIN_ITERATIONS, FALSE, 0), TRUE)

SentDraws == 3

\* an operation: the arguments of the caller, the instance it builds (e or d), the
\* number of urandom draws made before its own (base) and what it returned
NoResult == [ok |-> FALSE, err |-> "", v |-> <<>>]

EncOp(compute_intensively) ==
    [kind |-> "enc", pc |-> "start", message |-> MessageBase, mainkey |-> KeyLower,
     iterations |-> Size_MIN_ITERATIONS, compute_intensively |-> compute_intensively,
     e |-> NoEnc, d |-> NoDec, base |-> 0, out |-> NoResult]

DecOp ==
    [kind |-> "dec", pc |-> "start", message |-> SentEnvelope, mainkey |-> KeyLower,
     iterations |-> 0, compute_intensively |-> FALSE,
     e |-> NoEnc, d |-> NoDec, base |-> 0, out |-> NoResult]

OpCatalog == { EncOp(FALSE), EncOp(TRUE), DecOp }

\* EncBase.__init__ up to verify_key
OpChecked(o) ==
    LET pm == parse_message(o.message)
        ci == check_iterations(o.iterations)
        vk == verify_key(o.mainkey)
    IN  IF ~pm.ok THEN [o EXCEPT !.pc = "done", !.e = EncRaised(NoEnc, pm.err, <<>>)]
        ELSE IF ~ci.ok THEN [o EXCEPT !.pc = "done", !.e = EncRaised(NoEnc, ci.err, <<>>)]
        ELSE IF ~vk.ok THEN [o EXCEPT !.pc = "done", !.e = EncRaised(NoEnc, vk.err, <<>>)]
        ELSE [o EXCEPT !.pc = "checked",
                       !.e = [NoEnc EXCEPT !.message = pm.v, !.mainkey = o.mainkey,
                                           !.compute_intensively = o.compute_intensively,
                                           !.iterations = ci.v]]

\* randomizers taken without the source moving on
OpRandomizers_no_advance(o, count) ==
    LET r == cipher_randomizers(count)
    IN  [o |-> [o EXCEPT !.pc = "randomized", !.base = count,
                         !.e = [o.e EXCEPT !.iv = r.iv, !.salt = r.salt,
                                           !.pepper = r.pepper, !.draws = 3]],
         rng |-> count]

\* self.iv, self.salt, self.pepper = cipher_randomizers()
OpRandomizers(o, count) ==
    LET r == cipher_randomizers(count)
    IN  [o |-> [o EXCEPT !.pc = "randomized", !.base = count,
                         !.e = [o.e EXCEPT !.iv = r.iv, !.salt = r.salt,
                                           !.pepper = r.pepper, !.draws = 3]],
         rng |-> count + 3]

\* self.enc_key = use_KDF(...); self.hmac_key = use_KDF(...)
OpDerived(o) ==
    LET ek == use_KDF(o.e.compute_intensively, o.e.mainkey, o.e.salt, o.e.iterations)
        hk == use_KDF(o.e.compute_intensively, o.e.mainkey, o.e.pepper, o.e.iterations)
    IN  IF ~ek.ok THEN [o EXCEPT !.pc = "done", !.e = EncRaised(o.e, ek.err, <<>>)]
        ELSE IF ~hk.ok THEN [o EXCEPT !.pc = "done", !.e = EncRaised(o.e, hk.err, <<>>)]
        ELSE [o EXCEPT !.pc = "derived",
                       !.e = [o.e EXCEPT !.enc_key = ek.v, !.hmac_key = hk.v,
                                         !.status = "ok"]]

InitConcurrent ==
    /\ args = [message |-> MessageBase, mainkey |-> KeyLower,
               iterations |-> Size_MIN_ITERATIONS, compute_intensively |-> FALSE]
    /\ keyring = {KeyLower}
    /\ rng = SentDraws
    /\ enc = NoEnc
    /\ wire = NoEnvelope
    /\ dec = NoDec
    /\ crypt = NoCrypt
    /\ fs = NoFs
    /\ cryptfile = NoCryptFile
    /\ ops \in [1..MaxOps -> OpCatalog]
    /\ derived = <<>>

StepChecks(i) ==
    /\ ops[i].kind = "enc"
    /\ ops[i].pc = "start"
    /\ ops' = [ops EXCEPT ![i] = OpChecked(ops[i])]
    /\ UNCHANGED <<args, keyring, rng, enc, wire, dec, crypt, fs, cryptfile, derived>>

StepRandomizers(i) ==
    /\ ops[i].kind = "enc"
    /\ ops[i].pc = "checked"
    /\ LET got == OpRandomizers(ops[i], rng)
       IN  /\ ops' = [ops EXCEPT ![i] = got.o]
           /\ rng' = got.rng
    /\ UNCHANGED <<args, keyring, enc, wire, dec, crypt, fs, cryptfile, derived>>

StepDerive(i) ==
    /\ ops[i].kind = "enc"
    /\ ops[i].pc = "randomized"
    /\ ops' = [ops EXCEPT ![i] = OpDerived(ops[i])]
    /\ UNCHANGED <<args, keyring, rng, enc, wire, dec, crypt, fs, cryptfile, derived>>

\* ins.encrypt(get_bytes=True)
StepEncrypt(i) ==
    /\ ops[i].kind = "enc"
    /\ ops[i].pc = "derived"
    /\ ops' = [ops EXCEPT ![i].pc = "done",
                          ![i].out = [ok |-> TRUE, err |-> "",
                                      v |-> encrypt(ops[i].e, TRUE).v]]
    /\ UNCHANGED <<args, keyring, rng, enc, wire, dec, crypt, fs, cryptfile, derived>>

\* Dec(message, mainkey)
StepNewDec(i) ==
    /\ ops[i].kind = "dec"
    /\ ops[i].pc = "start"
    /\ ops' = [ops EXCEPT ![i].pc = "built",
                          ![i].d = DecBase_init(ops[i].message, ops[i].mainkey, "_base")]
    /\ UNCHANGED <<args, keyring, rng, enc, wire, dec, crypt, fs, cryptfile, derived>>

\* dec.decrypt(get_bytes=True)
StepDecrypt(i) ==
    /\ ops[i].kind = "dec"
    /\ ops[i].pc = "built"
    /\ ops' = [ops EXCEPT ![i].pc = "done",
                          ![i].out = IF ops[i].d.status = "ok"
                                     THEN decrypt(ops[i].d, TRUE)
                                     ELSE [NoResult EXCEPT !.err = ops[i].d.err]]
    /\ UNCHANGED <<args, keyring, rng, enc, wire, dec, crypt, fs, cryptfile, derived>>

NextConcurrent ==
    \E i \in 1..MaxOps :
        \/ StepChecks(i)
        \/ StepRandomizers(i)
        \/ StepDerive(i)
        \/ StepEncrypt(i)
        \/ StepNewDec(i)
        \/ StepDecrypt(i)

SpecConcurrent == InitConcurrent /\ [][NextConcurrent]_vars

(* ---- callers of use_KDF ---- *)
MaxDerive == 2

\* three draws of os.urandom(16) and the salt of the tests, b"\x01\x02\x03\x04"
DeriveSalts == {urandom(Size_SALT, c) : c \in 1..3} \cup { <<1, 2, 3, 4>> }

DeriveIterations == {Size_MIN_ITERATIONS, Size_MIN_ITERATIONS + 1}

InitDerive ==
    /\ args = [message |-> MessageBase, mainkey |-> KeyLower,
               iterations |-> Size_MIN_ITERATIONS, compute_intensively |-> FALSE]
    /\ keyring = {KeyLower, KeyUpper}
    /\ rng = 0
    /\ enc = NoEnc
    /\ wire = NoEnvelope
    /\ dec = NoDec
    /\ crypt = NoCrypt
    /\ fs = NoFs
    /\ cryptfile = NoCryptFile
    /\ ops = <<>>
    /\ derived = <<>>

\* use_KDF(compute_intensively=..., key=..., salt_pepper=..., iterations=...)
Derive(compute_intensively, key, salt_pepper, iterations) ==
    /\ Len(derived) < MaxDerive
    /\ derived' = Append(derived,
                         [compute_intensively |-> compute_intensively, key |-> key,
                          salt_pepper |-> salt_pepper, iterations |-> iterations,
                          result |-> use_KDF(compute_intensively, key, salt_pepper,
                                             iterations)])
    /\ UNCHANGED <<args, keyring, rng, enc, wire, dec, crypt, fs, cryptfile, ops>>

NextDerive ==
    \E compute_intensively \in BOOLEAN, key \in keyring, salt_pepper \in DeriveSalts,
       iterations \in DeriveIterations :
        Derive(compute_intensively, key, salt_pepper, iterations)

SpecDerive == InitDerive /\ [][NextDerive]_vars

(* ---- callers with messages of every length about the block boundaries ---- *)
MaxMessageLen == 33

\* b"a" * n for every n up to the bound, and messages with a whitespace byte at
\* one end, of one byte short of a block, of one block and of two blocks
ArgsPadding ==
    [message : {Bytes(Rep(97, n)) : n \in 0..MaxMessageLen}
                   \cup {Bytes(Rep(97, n) \o <<32>>) : n \in {14, 15, 31}}
                   \cup {Bytes(<<10>> \o Rep(97, 15))},
     mainkey : {KeyLower}, iterations : {Size_MIN_ITERATIONS},
     compute_intensively : {FALSE}]

InitPadding ==
    /\ args \in ArgsPadding
    /\ keyring = {args.mainkey}
    /\ rng = 0
    /\ enc = NoEnc
    /\ wire = NoEnvelope
    /\ dec = NoDec
    /\ crypt = NoCrypt
    /\ fs = NoFs
    /\ cryptfile = NoCryptFile
    /\ ops = <<>>
    /\ derived = <<>>

NextPadding ==
    \/ NewEnc
    \/ \E get_bytes \in BOOLEAN : Encrypt(get_bytes)

SpecPadding == InitPadding /\ [][NextPadding]_vars

(* ---- properties ---- *)
Called(log, name) == \E i \in 1..Len(log) : log[i] = name

InRange(n) == 50 <= n /\ n <= 1000000

\* the bytes of the envelope on the wire, and the count in its iteration field
WireRaw == wire.env.v

EmbeddedIterations ==
    unpack_I(Slice(WireRaw, IterationsOffset, IterationsOffset + FOR_ITERATIONS)).v

\* C1: for every non-empty message m, bytes or text, and every valid key, decrypting
\* the envelope of encrypt(m, k) with the same key succeeds and returns exactly m
\* (as bytes for a bytes message, as text for a text message).
C1_RoundTrip ==
    (dec.status # "none" /\ dec.key = args.mainkey /\ Len(args.message.v) > 0)
        => /\ dec.status = "ok"
           /\ (dec.calls = 1 /\ dec.result_t = args.message.t)
                  => dec.result = Ok(args.message.v)

\* C2 as stated: a Dec built with the correct key on an envelope with one bit
\* inverted raises MessageTamperingError, whichever bit it is.
C2_AnyFlipIsTamperError ==
    (dec.status # "none" /\ wire.touch = <<"flip">>)
        => (dec.status = "raised" /\ dec.err = "MessageTamperingError")

\* C2: a Dec built with the correct key on an envelope with one bit inverted never
\* succeeds and nothing is decrypted: it raises IterationsOutofRangeError when the
\* bit moved the iteration count out of [50, 1000000], and MessageTamperingError
\* for every other bit.
C2_TamperSensitivity ==
    (dec.status # "none" /\ wire.touch = <<"flip">>)
        => /\ dec.status = "raised"
           /\ dec.calls = 0
           /\ dec.err = IF InRange(EmbeddedIterations) THEN "MessageTamperingError"
                        ELSE "IterationsOutofRangeError"

C2_Witness ==
    /\ wire.touch = <<"flip">>
    /\ dec.status = "raised"
    /\ dec.err = "MessageTamperingError"
    /\ WireRaw[1] # encrypt(enc, TRUE).v[1]

\* C3 as stated: a Dec built on a valid envelope with any key string other than the
\* one it was encrypted with raises MessageTamperingError.
C3_AnyOtherKeyIsTamperError ==
    (dec.status # "none" /\ dec.key # args.mainkey)
        => (dec.status = "raised" /\ dec.err = "MessageTamperingError")

\* C3: a Dec built on a valid envelope with another key string always raises:
\* UnicodeEncodeError for a key that has no UTF-8 encoding, ValueError for the
\* empty key on a cost-intensive envelope, MessageTamperingError for every other key.
C3_KeySensitivity ==
    (dec.status # "none" /\ dec.key # args.mainkey)
        => /\ dec.status = "raised"
           /\ dec.err =
                IF \E i \in 1..Len(dec.key) : IsSurrogate(dec.key[i])
                THEN "UnicodeEncodeError"
                ELSE IF dec.key = <<>> /\ args.compute_intensively THEN "ValueError"
                ELSE "MessageTamperingError"

C3_Witness ==
    /\ args.mainkey = KeyLower
    /\ dec.key = KeyUpper
    /\ dec.status = "raised"
    /\ dec.err = "MessageTamperingError"

\* C4: the block cipher and the unpadding run only on a Dec whose construction ended
\* with the recomputed HMAC compared equal to the carried tag; when the two differ
\* the construction raises MessageTamperingError and the cipher never runs.
C4_VerifyThenDecrypt ==
    /\ dec.dlog # <<>>
           => /\ dec.status = "ok"
              /\ dec.log[Len(dec.log)] = "verify_hmac"
              /\ calculated_hmac(dec) = dec.rec_hmac
    /\ (dec.status # "none" /\ dec.log[Len(dec.log)] = "verify_hmac"
           /\ calculated_hmac(dec) # dec.rec_hmac)
           => /\ dec.status = "raised"
              /\ dec.err = "MessageTamperingError"
              /\ dec.calls = 0
              /\ dec.dlog = <<>>

C4_Witness ==
    /\ dec.calls = 1
    /\ dec.dlog = <<"cipher", "unpad">>
    /\ dec.result.ok

\* C5 as stated: a Dec built on any envelope that carries an iteration count outside
\* [50, 1000000] raises IterationsOutofRangeError, with no subkey derived and no
\* tag verified.
C5_EveryEnvelopeRangeChecked ==
    (dec.status # "none" /\ Len(WireRaw) >= IterationsOffset + FOR_ITERATIONS
         /\ ~InRange(EmbeddedIterations))
        => /\ dec.status = "raised"
           /\ dec.err = "IterationsOutofRangeError"
           /\ ~Called(dec.log, "use_KDF")
           /\ ~Called(dec.log, "verify_hmac")

\* C5: a Dec built on an envelope of at least 88 bytes (for core/_base.py: at least
\* 84 bytes) that carries an iteration count outside [50, 1000000] raises
\* IterationsOutofRangeError, with no subkey derived and no tag verified.
C5_RangeBeforeDerivation ==
    (/\ dec.status # "none"
     /\ \/ Len(WireRaw) >= FixedFieldTotal
        \/ dec.module = "_base" /\ Len(WireRaw) >= IterationsOffset + FOR_ITERATIONS
     /\ ~InRange(EmbeddedIterations))
        => /\ dec.status = "raised"
           /\ dec.err = "IterationsOutofRangeError"
           /\ ~Called(dec.log, "use_KDF")
           /\ ~Called(dec.log, "verify_hmac")

C5_Witness ==
    /\ wire.touch = <<"iterations">>
    /\ EmbeddedIterations = Size_MAX_ITERATIONS + 1
    /\ dec.module = "base"
    /\ dec.err = "IterationsOutofRangeError"

\* C6: check_iterations(n) returns n for every n with 50 <= n <= 1000000 and raises
\* IterationsOutofRangeError for every other n; Enc(...) with 49 or 1000001
\* iterations raises that error, and no envelope is ever produced.
C6_BoundsEnforcement ==
    /\ check_iterations(args.iterations) =
           IF InRange(args.iterations)
           THEN [ok |-> TRUE, err |-> "", v |-> args.iterations]
           ELSE [ok |-> FALSE, err |-> "IterationsOutofRangeError", v |-> 0]
    /\ enc.status # "none"
           => IF InRange(args.iterations)
              THEN /\ enc.err # "IterationsOutofRangeError"
                   /\ enc.status = "ok" => enc.iterations = args.iterations
              ELSE /\ enc.status = "raised"
                   /\ enc.err = "IterationsOutofRangeError"
                   /\ wire.by = 0

C6_Witness ==
    /\ args.iterations = 1000001
    /\ args.mainkey = KeyLower
    /\ enc.serial = 2
    /\ enc.status = "raised"
    /\ enc.err = "IterationsOutofRangeError"

EnvelopeRaw(env) == parse_encrypted_message(env).v

\* C7 as stated: every call of encrypt() draws a new IV, salt and pepper, so the
\* envelope a call returns is never the one the call before it returned.
C7_EveryCallFresh ==
    (wire.by > 0 /\ wire.last.by > 0)
        => EnvelopeRaw(wire.env) # EnvelopeRaw(wire.last.env)

\* C7: every construction of an Enc draws a new IV, salt and pepper (encrypt()
\* draws none): the envelopes of two Enc instances built for the same message and
\* key differ in all three fields, the envelopes of one instance are the same
\* bytes, and every one of them decrypts to the same plaintext.  Every envelope
\* is on the wire before a Dec is built on it: the envelopes are compared there.
C7_Freshness ==
    (wire.by > 0 /\ wire.last.by > 0 /\ dec.status = "none")
        => LET a == EnvelopeRaw(wire.env)
               b == EnvelopeRaw(wire.last.env)
               da == DecBase_init(wire.env, args.mainkey, "_base")
               db == DecBase_init(wire.last.env, args.mainkey, "_base")
           IN  /\ wire.by # wire.last.by
                      => /\ a # b
                         /\ da.rec_iv # db.rec_iv
                         /\ da.rec_salt # db.rec_salt
                         /\ da.rec_pepper # db.rec_pepper
               /\ wire.by = wire.last.by => a = b
               /\ da.status = "ok" /\ db.status = "ok"
               /\ LET pa == decrypt(da, TRUE)
                  IN  pa.ok /\ pa = decrypt(db, TRUE)

C7_Witness ==
    /\ wire.by = 2
    /\ wire.last.by = 1
    /\ wire.env.t = "bytes"
    /\ wire.last.env.t = "bytes"
    /\ wire.env # wire.last.env

\* C8: a Dec built on fewer than 88 bytes raises the error of a malformed envelope
\* (struct.error, the one error the code has for a field that is not all there),
\* whatever the bytes are.
C8_ShortInputMalformed ==
    (dec.status # "none" /\ Len(WireRaw) < 88)
        => (dec.status = "raised" /\ dec.err = "struct.error")

HexDigit(c) == c \in (48..57) \cup (65..70) \cup (97..102)

\* a hex string of at least 32 bytes once trimmed
StrictHexKey(k) ==
    LET t == str_strip(k)
    IN  /\ \A i \in 1..Len(t) : HexDigit(t[i])
        /\ Len(t) % 2 = 0
        /\ Len(t) \div 2 >= 32

\* the same, with ASCII whitespace allowed between two bytes of the trimmed string
SpacedHexKey(k) ==
    LET t == str_strip(k)
        digits == {i \in 1..Len(t) : t[i] \notin {9, 10, 11, 12, 13, 32}}
        before(i) == Cardinality({j \in digits : j < i})
    IN  /\ \A i \in digits : HexDigit(t[i])
        /\ \A i \in (1..Len(t)) \ digits : before(i) % 2 = 0
        /\ Cardinality(digits) % 2 = 0
        /\ Cardinality(digits) \div 2 >= 32

\* C9 as stated: with the iteration count in range, Enc(...) succeeds exactly when
\* the trimmed key is a string of hex digits decoding to at least 32 bytes, and
\* raises the key error with no subkey derived for every other key.
C9_StrictHexOnly ==
    (enc.status # "none" /\ InRange(args.iterations))
        => IF StrictHexKey(args.mainkey) THEN enc.status = "ok"
           ELSE /\ enc.status = "raised"
                /\ enc.err = "ValueError"
                /\ ~Called(enc.log, "use_KDF")

\* C9: with the iteration count in range, Enc(...) succeeds exactly when the trimmed
\* key is a string of hex digit pairs, upper or lower case, with ASCII whitespace
\* allowed between pairs, decoding to at least 32 bytes; for every other key it raises
\* ValueError before any random value is drawn and before any subkey is derived.
C9_KeyAcceptance ==
    (enc.status # "none" /\ InRange(args.iterations))
        => IF SpacedHexKey(args.mainkey) THEN enc.status = "ok"
           ELSE /\ enc.status = "raised"
                /\ enc.err = "ValueError"
                /\ enc.draws = 0
                /\ ~Called(enc.log, "cipher_randomizers")
                /\ ~Called(enc.log, "use_KDF")

C9_Witness ==
    /\ args.mainkey = KeyShort
    /\ enc.status = "raised"
    /\ enc.err = "ValueError"
    /\ enc.log = <<"parse_message", "check_iterations", "verify_key">>

\* C10: a Dec built with a key that is not valid hex, or that decodes to fewer than
\* 32 bytes, raises the key error of the encrypt path (ValueError) with no subkey
\* derived.
C10_KeyCheckedOnDecrypt ==
    (dec.status # "none" /\ ~SpacedHexKey(dec.key))
        => /\ dec.status = "raised"
           /\ dec.err = "ValueError"
           /\ ~Called(dec.log, "use_KDF")

\* C11: every failure of Crypt.encrypt / Crypt.decrypt reaches the caller as the
\* error type of its own kind: key format (ValueError), iteration range
\* (IterationsOutofRangeError), malformed envelope (struct.error, binascii.Error),
\* tamper detected (MessageTamperingError) or empty input (EmptyContentError).
C11_TypedErrors ==
    crypt.out.status = "raised"
        => crypt.out.err \in {"ValueError", "IterationsOutofRangeError", "struct.error",
                              "binascii.Error", "MessageTamperingError",
                              "EmptyContentError"}

\* the message the encrypting caller passed, in the form decrypt was asked for
OriginalAs(t) ==
    IF args.message.t = t THEN Ok(args.message.v)
    ELSE IF t = "bytes" THEN str_encode(args.message.v)
    ELSE bytes_decode(args.message.v)

\* C12: a decrypt call on the envelope of a message either returns the complete
\* original message or fails, and a failed construction or call hands the caller
\* no plaintext at all.
C12_NoPartialOutput ==
    /\ dec.status = "raised" => (dec.calls = 0 /\ dec.result.v = <<>>)
    /\ dec.calls = 1
           => IF dec.result.ok THEN dec.result = OriginalAs(dec.result_t)
              ELSE dec.result.v = <<>>

\* C17: Enc(...) on an empty message raises EmptyContentError and no envelope of an
\* empty message is ever returned.
C17_EmptyRejected ==
    (enc.status # "none" /\ args.message.v = <<>>)
        => /\ enc.status = "raised"
           /\ enc.err = "EmptyContentError"
           /\ wire.by = 0

\* C20: Crypt.encrypt and Crypt.decrypt raise EmptyContentError exactly when the data
\* is empty, raise CryptError whenever the EncBase / DecBase construction or the
\* decrypt() call under them raises, and otherwise return what encrypt() /
\* decrypt() returned, in the form asked for.
C20_CryptWrapping ==
    crypt.out.op # "none"
        => /\ crypt.out.status \in {"ok", "raised"}
           /\ (crypt.out.status = "raised" /\ crypt.out.err = "EmptyContentError")
                  <=> crypt.data.v = <<>>
           /\ (crypt.data.v # <<>> /\ crypt.out.op = "encrypt")
                  => IF enc.status = "raised"
                     THEN crypt.out.status = "raised" /\ crypt.out.err = "CryptError"
                     ELSE /\ crypt.out.status = "ok"
                          /\ crypt.out.v = encrypt(enc, crypt.out.v.t = "bytes")
           /\ (crypt.data.v # <<>> /\ crypt.out.op = "decrypt")
                  => IF dec.status = "raised" \/ ~dec.result.ok
                     THEN crypt.out.status = "raised" /\ crypt.out.err = "CryptError"
                     ELSE /\ crypt.out.status = "ok"
                          /\ crypt.out.v.t = dec.result_t
                          /\ crypt.out.v.v = dec.result.v

\* Crypt(message, key).decrypt() on data that is no envelope
C20_Witness ==
    /\ crypt.out.op = "decrypt"
    /\ crypt.data = args.message
    /\ crypt.data.v # <<>>
    /\ crypt.out.status = "raised"
    /\ crypt.out.err = "CryptError"

\* the unsigned big-endian number in the four bytes after offset a
BigEndian(r, a) == r[a + 1] * 16777216 + r[a + 2] * 65536 + r[a + 3] * 256 + r[a + 4]

\* the envelope on the wire was made by the current Enc instance
WireIsOfEnc == wire.by > 0 /\ wire.by = enc.serial

\* C13: the raw envelope encrypt() returns is tag(32), IV(16), salt(16), pepper(16),
\* iteration count(4, big-endian), signature(4, big-endian), ciphertext, with no
\* delimiters, and the slices a Dec takes at the offsets 0, 32, 48, 64, 80, 84, 88
\* are the tag, IV, salt, pepper, count, signature and ciphertext of the encryptor.
C13_EnvelopeLayout ==
    WireIsOfEnc
        => LET r == EnvelopeRaw(wire.env)
               signature == IF enc.compute_intensively THEN 0 ELSE 1
           IN  /\ Len(r) > 88
               /\ SubSeq(r, 1, 32) = hmac_final(enc)
               /\ SubSeq(r, 33, 48) = enc.iv
               /\ SubSeq(r, 49, 64) = enc.salt
               /\ SubSeq(r, 65, 80) = enc.pepper
               /\ BigEndian(r, 80) = enc.iterations
               /\ BigEndian(r, 84) = signature
               /\ SubSeq(r, 89, Len(r)) = ciphertext(enc)
               /\ dec.status # "none"
                      => /\ dec.message = r
                         /\ dec.rec_hmac = hmac_final(enc)
                         /\ dec.rec_iv = enc.iv
                         /\ dec.rec_salt = enc.salt
                         /\ dec.rec_pepper = enc.pepper
                         /\ dec.rec_iterations = enc.iterations
                         /\ dec.rec_KDF_signature = signature
                         /\ dec.rec_ciphertext = ciphertext(enc)

C13_Witness ==
    /\ WireIsOfEnc
    /\ wire.env.t = "bytes"
    /\ enc.iterations = 1000000
    /\ dec.status = "ok"
    /\ dec.rec_iterations = 1000000

\* C14: the tag in an envelope is the HMAC, under the subkey derived from the pepper,
\* of exactly the bytes that follow the tag (IV, salt, pepper, count, signature,
\* ciphertext); a Dec recomputes it under its own pepper subkey over the same bytes
\* and accepts exactly when it equals the carried tag; the authentication subkey
\* differs from the cipher subkey, which is derived from the salt.
C14_TagCoverage ==
    /\ WireIsOfEnc
           => LET r == EnvelopeRaw(wire.env)
              IN  /\ SubSeq(r, 1, 32) = hmac_sha256(enc.hmac_key, SubSeq(r, 33, Len(r)))
                  /\ enc.hmac_key =
                         use_KDF(enc.compute_intensively, enc.mainkey, enc.pepper,
                                 enc.iterations).v
                  /\ enc.enc_key =
                         use_KDF(enc.compute_intensively, enc.mainkey, enc.salt,
                                 enc.iterations).v
                  /\ enc.hmac_key # enc.enc_key
    /\ (dec.status # "none" /\ Called(dec.log, "verify_hmac"))
           => LET m == dec.message
                  tag == hmac_sha256(dec.hmac_k, SubSeq(m, 33, Len(m)))
              IN  /\ calculated_hmac(dec) = tag
                  /\ dec.status = "ok" <=> tag = SubSeq(m, 1, 32)
                  /\ dec.hmac_k # dec.dec_key

C14_Witness ==
    /\ WireIsOfEnc
    /\ dec.status = "ok"
    /\ dec.key = args.mainkey
    /\ dec.rec_hmac = hmac_final(enc)
    /\ args.compute_intensively

\* the signature value in the envelope a Dec was built on
EmbeddedSignature(m) ==
    unpack_I(Slice(m, IterationsOffset + FOR_ITERATIONS,
                   IterationsOffset + FOR_ITERATIONS + FOR_KDF_SIGNATURE)).v

\* C15: a Dec built on an envelope whose signature field is neither 0 (cost-intensive)
\* nor 1 (fast) is rejected by validation: it raises before any subkey is derived, and
\* the error is not the tag mismatch of the later verification.
C15_SignatureValidated ==
    ( /\ dec.status # "none"
      /\ Len(dec.message) >= FixedFieldTotal
      /\ InRange(unpack_I(Slice(dec.message, IterationsOffset,
                                IterationsOffset + FOR_ITERATIONS)).v)
      /\ EmbeddedSignature(dec.message) \notin {UseKDF_SLOW, UseKDF_FAST} )
        => /\ dec.status = "raised"
           /\ ~Called(dec.log, "use_KDF")
           /\ dec.err # "MessageTamperingError"

\* C16: the signature in an envelope is 1 when the fast derivation was used (the
\* default) and 0 when the cost-intensive one was used; a Dec derives both subkeys with
\* the algorithm named by the signature in the envelope and the iteration count in the
\* envelope, and for the encryptor's key they are the encryptor's subkeys.
C16_SelfDescribingDerivation ==
    /\ WireIsOfEnc
           => LET r == EnvelopeRaw(wire.env)
              IN  /\ enc.compute_intensively => BigEndian(r, 84) = 0
                  /\ ~enc.compute_intensively => BigEndian(r, 84) = 1
                  /\ enc.compute_intensively = DEFAULT_INTENSIVE_COMPUTE
                         => BigEndian(r, 84) = 1
                  /\ enc.enc_key =
                         IF BigEndian(r, 84) = 0
                         THEN intensive_KDF(enc.mainkey, enc.salt, enc.iterations).v
                         ELSE blazingly_fast_KDF(enc.mainkey, enc.salt).v
    /\ (dec.status # "none" /\ Called(dec.log, "verify_hmac"))
           => LET m == dec.message
                  salt == SubSeq(m, 49, 64)
                  pepper == SubSeq(m, 65, 80)
              IN  /\ BigEndian(m, 84) = 0
                         => /\ dec.dec_key = intensive_KDF(dec.key, salt, BigEndian(m, 80)).v
                            /\ dec.hmac_k = intensive_KDF(dec.key, pepper, BigEndian(m, 80)).v
                  /\ BigEndian(m, 84) = 1
                         => /\ dec.dec_key = blazingly_fast_KDF(dec.key, salt).v
                            /\ dec.hmac_k = blazingly_fast_KDF(dec.key, pepper).v
                  /\ (WireIsOfEnc /\ dec.key = enc.mainkey)
                         => /\ dec.dec_key = enc.enc_key
                            /\ dec.hmac_k = enc.hmac_key

C16_Witness ==
    /\ WireIsOfEnc
    /\ enc.compute_intensively
    /\ enc.iterations = 1000000
    /\ dec.status = "ok"
    /\ dec.key = enc.mainkey
    /\ dec.rec_KDF_signature = UseKDF_SLOW
    /\ dec.dec_key = enc.enc_key

\* A-Z, a-z, 0-9, '-', '_' and the pad '='
UrlSafeText == (65..90) \cup (97..122) \cup (48..57) \cup {45, 95, 61}

\* C18: the default result of encrypt() is the URL-safe base64 text of exactly the
\* bytes encrypt(get_bytes=True) returns; Dec takes either form and slices the same
\* raw bytes, so construction and decrypt() give for the text form what they give
\* for the raw form.  The two forms are compared where the envelope is on the wire
\* with no Dec built yet, the Dec with the raw form once it is built.
C18_TransportForms ==
    WireIsOfEnc
        => /\ dec.status = "none"
                  => LET raw == encrypt(enc, TRUE)
                         text == encrypt(enc, FALSE)
                     IN  /\ raw.t = "bytes" /\ text.t = "str"
                         /\ wire.env \in {raw, text}
                         /\ Len(text.v) = 4 * ((Len(raw.v) + 2) \div 3)
                         /\ \A i \in 1..Len(text.v) : text.v[i] \in UrlSafeText
                         /\ parse_encrypted_message(text) = Ok(raw.v)
                         /\ parse_encrypted_message(raw) = Ok(raw.v)
           /\ dec.status # "none"
                  => LET raw == encrypt(enc, TRUE)
                     IN  /\ dec.message = raw.v
                         /\ wire.env.t = "str"
                                => LET d == DecBase_init(raw, dec.key, "_base")
                                   IN  /\ dec.status = d.status
                                       /\ dec.err = d.err
                                       /\ dec.log = d.log
                                       /\ dec.calls = 1
                                              => dec.result
                                                     = decrypt(d, dec.result_t = "bytes")

C18_Witness ==
    /\ WireIsOfEnc
    /\ wire.env.t = "str"
    /\ \E i \in 1..Len(wire.env.v) : wire.env.v[i] \in {45, 95}
    /\ dec.status = "ok"
    /\ dec.calls = 1
    /\ dec.result.ok
    /\ dec.result.v = args.message.v

\* the calls of a completed Enc(...) and of a completed Dec(...) of _base.py, in order
EncPhases ==
    <<"parse_message", "check_iterations", "verify_key", "cipher_randomizers",
      "use_KDF", "use_KDF">>

DecPhases ==
    <<"parse_encrypted_message", "unpack", "check_iterations", "unpack",
      "use_KDF", "use_KDF", "verify_hmac">>

IsPrefix(a, b) == Len(a) <= Len(b) /\ a = SubSeq(b, 1, Len(a))

\* C19: every operation goes Start -> Validated -> KeysDerived -> (Encrypted | Verified)
\* -> Complete in this order. The calls of an operation are a prefix of the full
\* sequence; randomness is drawn and subkeys are derived only after validation of the
\* iteration count and of the key has succeeded; an operation that raised made no
\* later call (no draw, no envelope, no decrypt), and only one that did not raise
\* ran every phase.
C19_PhaseOrder ==
    /\ enc.status # "none"
           => /\ IsPrefix(enc.log, EncPhases)
              /\ enc.status = "ok" => enc.log = EncPhases
              /\ (Called(enc.log, "cipher_randomizers") \/ Called(enc.log, "use_KDF"))
                     => /\ InRange(enc.iterations)
                        /\ verify_key(enc.mainkey).ok
              /\ (enc.status = "raised" /\ ~Called(enc.log, "cipher_randomizers"))
                     => enc.draws = 0 /\ enc.enc_key = <<>> /\ enc.hmac_key = <<>>
              /\ enc.status = "raised" => ~WireIsOfEnc
    /\ dec.status # "none"
           => /\ IsPrefix(dec.log, DecPhases)
              /\ dec.status = "ok" => dec.log = DecPhases
              /\ Called(dec.log, "use_KDF")
                     => /\ InRange(dec.rec_iterations)
                        /\ verify_key(dec.key).ok
              /\ ~Called(dec.log, "use_KDF") => dec.dec_key = <<>> /\ dec.hmac_k = <<>>
              /\ dec.status = "raised" => dec.calls = 0 /\ dec.dlog = <<>>

\* the key is a hexadecimal string that decodes to exactly 32 bytes
ExactHexKey(k) ==
    LET raw == bytes_fromhex(str_strip(k))
    IN  raw.ok /\ Len(raw.v) = 32

\* C21: a CryptFile is constructed exactly for the keys that are hexadecimal and
\* decode to 32 bytes (key_verify 1); for every other key, key_verify 0 or -1, the
\* constructor raises KeyLengthError.
C21_OnlyExactKeysAccepted ==
    cryptfile.status # "none"
        => /\ key_verify(cryptfile.key) = 1 <=> ExactHexKey(cryptfile.key)
           /\ cryptfile.status = "ok" <=> ExactHexKey(cryptfile.key)
           /\ cryptfile.status = "raised" => cryptfile.err = "KeyLengthError"

FileF == <<"f">>

FileFCrypt == <<"f", ".crypt">>

\* the call of the object in hand returned 1
FileReturned(op) ==
    /\ cryptfile.op = op
    /\ cryptfile.out.status = "returned"
    /\ cryptfile.out.v = 1

\* C22: once CryptFile(f, k).encrypt() has returned 1 the file is under f.crypt and
\* holds the envelope of its content, and once CryptFile(f.crypt, k).decrypt() has
\* returned 1 after it the file is under f again with exactly the bytes it had at
\* the start
C22_FileRoundTrip ==
    /\ (cryptfile.filename = FileF /\ FileReturned("encrypt"))
           => /\ fs[FileF] = Absent
              /\ fs[FileFCrypt] = RegularFile(encrypt(enc, TRUE).v)
    /\ (cryptfile.filename = FileFCrypt /\ FileReturned("decrypt")
            /\ enc.status = "ok" /\ cryptfile.key = enc.mainkey)
           => /\ fs[FileFCrypt] = Absent
              /\ fs[FileF] = RegularFile(args.message.v)

EndsInCrypt(path) == Len(path) > 1 /\ path[Len(path)] = ".crypt"

\* the precondition error due for a call of op on path in the file system f, "" when
\* none is
PreconditionError(op, path, f) ==
    CASE f[path].kind = "dir" -> "GivenDirectoryError"
      [] f[path].kind = "none" -> "FileDoesNotExistError"
      [] f[path].kind = "file" /\ op = "encrypt" /\ EndsInCrypt(path) -> "AlreadyEncryptedError"
      [] f[path].kind = "file" /\ op = "decrypt" /\ ~EndsInCrypt(path) -> "AlreadyDecryptedError"
      [] OTHER -> ""

PreconditionErrors ==
    {"GivenDirectoryError", "FileDoesNotExistError", "AlreadyEncryptedError",
     "AlreadyDecryptedError"}

\* C23: encrypt and decrypt raise GivenDirectoryError for a directory, else
\* FileDoesNotExistError for a missing path, else AlreadyEncryptedError (encrypt, path
\* ending in .crypt) or AlreadyDecryptedError (decrypt, path not ending in .crypt),
\* the first of these that applies and none when none applies; the call that raises
\* one ends there with the file system as it was
C23_PreconditionErrors ==
    cryptfile.op # "none"
        => LET due == PreconditionError(cryptfile.op, cryptfile.filename, cryptfile.fs0)
           IN  /\ due # ""
                     => /\ cryptfile.pc = "done"
                        /\ cryptfile.out.status = "raised"
                        /\ cryptfile.out.err = due
                        /\ fs = cryptfile.fs0
               /\ due = "" => cryptfile.out.err \notin PreconditionErrors

\* encrypt on a directory whose name ends in .crypt: the directory check comes first
C23_Witness ==
    /\ cryptfile.op = "encrypt"
    /\ cryptfile.filename = <<"d", ".crypt">>
    /\ cryptfile.out.err = "GivenDirectoryError"
    /\ fs = cryptfile.fs0

\* C29: a call of encrypt or decrypt that raised FileCryptError or EmptyContentError
\* leaves every path as it was when the call began: the file is under its name and
\* holds the bytes it held
C29_FailureRestores ==
    (cryptfile.out.status = "raised"
        /\ cryptfile.out.err \in {"FileCryptError", "EmptyContentError"})
        => /\ fs = cryptfile.fs0
           /\ fs[cryptfile.filename] = RegularFile(cryptfile.file_content)

\* decrypt of a file that is not empty has raised FileCryptError
C29_Witness ==
    /\ cryptfile.op = "decrypt"
    /\ cryptfile.out.status = "raised"
    /\ cryptfile.out.err = "FileCryptError"
    /\ Len(cryptfile.file_content) > 0
    /\ fs = cryptfile.fs0

\* what the call in hand, its file open for writing, goes on to write into it
Upcoming(c) ==
    IF c.op = "encrypt" THEN CryptFile_encrypt_body(c, fs, rng).fs[c.filename].content
    ELSE CryptFile_decrypt_body(c, fs).fs[c.filename].content

\* C30: from the read of the file to the end of the call, interrupted or not, the
\* file holds the complete bytes it held before the call or the complete bytes the
\* call writes, never an empty or a partial content
C30_AtomicRewrite ==
    (cryptfile.pc \in {"open", "written", "done"}
        /\ cryptfile.fs0[cryptfile.filename].kind = "file"
        /\ fs[cryptfile.filename].kind = "file")
        => \/ fs[cryptfile.filename].content = cryptfile.fs0[cryptfile.filename].content
           \/ /\ cryptfile.pc = "open"
              /\ fs[cryptfile.filename].content = Upcoming(cryptfile)
           \/ /\ cryptfile.pc \in {"written", "done"}
              /\ fs[cryptfile.filename].content = cryptfile.new_content

BlockBytes == 16

\* the length the ciphertext of a message of n bytes is to have
PaddedLength(n) == BlockBytes * ((n \div BlockBytes) + 1)

\* C24: the message m the caller passes is padded with 1 to 16 bytes (16 when its
\* length is a multiple of 16), so the ciphertext encrypt() puts in the envelope is
\* 16 * (len(m) div 16 + 1) bytes long and the raw envelope 88 bytes longer
C24_PaddedLengths ==
    (WireIsOfEnc /\ wire.env.t = "bytes")
        => LET n == Len(args.message.v)
               c == Len(wire.env.v) - FixedFieldTotal
           IN  /\ c = PaddedLength(n)
               /\ c - n \in 1..BlockBytes
               /\ c % BlockBytes = 0
               /\ Len(wire.env.v) = 88 + PaddedLength(n)

SameCall(a, b) ==
    /\ a.compute_intensively = b.compute_intensively
    /\ a.key = b.key
    /\ a.salt_pepper = b.salt_pepper
    /\ a.iterations = b.iterations

OtherSalt(a, b) ==
    /\ a.compute_intensively = b.compute_intensively
    /\ a.key = b.key
    /\ a.salt_pepper # b.salt_pepper
    /\ a.iterations = b.iterations

Alone(o) ==
    IF o.kind = "enc"
    THEN encrypt(EncBase_init(o.message, o.mainkey, o.iterations, o.compute_intensively,
                              o.base), TRUE).v
    ELSE decrypt(DecBase_init(o.message, o.mainkey, "_base"), TRUE).v

HasRandomizers(o) == o.kind = "enc" /\ o.pc \in {"randomized", "derived", "done"}

OwnRandomness(a, b) ==
    /\ a.e.iv # b.e.iv
    /\ a.e.salt # b.e.salt
    /\ a.e.pepper # b.e.pepper
    /\ a.e.enc_key # b.e.enc_key \/ a.e.enc_key = <<>>

ResultsAsAlone ==
    \A i \in DOMAIN ops :
        /\ ops[i].pc = "done" => ops[i].out.ok /\ ops[i].out.v = Alone(ops[i])
        /\ \A j \in DOMAIN ops :
               (i # j /\ HasRandomizers(ops[i]) /\ HasRandomizers(ops[j]))
                   => OwnRandomness(ops[i], ops[j])

OneOperationPerStep ==
    \A i \in DOMAIN ops :
        ops'[i] # ops[i] => \A j \in DOMAIN ops \ {i} : ops'[j] = ops[j]

\* C26: operations on separate instances interleave step by step; each step changes
\* the state of one operation alone, two encryptions never hold the same IV, salt,
\* pepper or subkey, and what each operation returns is what it returns when run
\* with no other
C26_Independence == [](ResultsAsAlone) /\ [][OneOperationPerStep]_vars

\* two encryptions ran interleaved, the second taking its randomizers before the
\* first derived its subkeys, and both are done
C26_Witness ==
    /\ \A i \in DOMAIN ops : ops[i].kind = "enc" /\ ops[i].pc = "done"
    /\ Len(ops) >= 2
    /\ ops[1].base > ops[2].base
    /\ ops[1].out.ok /\ ops[2].out.ok

\* encrypt(get_bytes=True) was called on the current instance twice in a row
EncryptedTwice ==
    /\ WireIsOfEnc
    /\ wire.last.by = wire.by
    /\ wire.env.t = "bytes"
    /\ wire.last.env.t = "bytes"

RepeatedEnvelopeIdentical ==
    EncryptedTwice
        => /\ wire.env = wire.last.env
           /\ Slice(wire.env.v, Size_HMAC, Size_HMAC + Size_IV) = enc.iv
           /\ Slice(wire.env.v, 48, 64) = enc.salt
           /\ Slice(wire.env.v, 64, 80) = enc.pepper
           /\ BigEndian(wire.env.v, 80) = enc.iterations

\* a step that is not the construction of a new instance leaves every attribute of
\* the instance as it is, a call of encrypt() among them
InstanceKept ==
    /\ enc'.serial = enc.serial => enc' = enc
    /\ wire' # wire => enc' = enc

\* C27: the IV, salt, pepper, iteration count and subkeys of an Enc are those the
\* constructor set: no call of encrypt() changes an attribute, and two calls of
\* encrypt(get_bytes=True) on one instance return the same bytes, whose fields are
\* the attributes of the instance
C27_EncImmutable == [](RepeatedEnvelopeIdentical) /\ [][InstanceKept]_vars

C27_Witness ==
    /\ EncryptedTwice
    /\ wire.env = wire.last.env
    /\ Len(wire.env.v) > FixedFieldTotal

\* the key string without its leading and trailing whitespace, hex letters in lower case
KeyFolded(k) ==
    LET t == str_strip(k)
    IN  [i \in 1..Len(t) |-> IF t[i] >= 65 /\ t[i] <= 70 THEN t[i] + 32 ELSE t[i]]

\* C28: an envelope encrypted under the key string k decrypts under every key string
\* that differs from k in the case of hex letters or in leading and trailing
\* whitespace alone
C28_EquivalentKeyStrings ==
    (WireIsOfEnc /\ dec.status # "none" /\ dec.src = enc.serial
        /\ KeyFolded(dec.key) = KeyFolded(enc.mainkey))
        => /\ dec.status = "ok"
           /\ dec.calls > 0 => dec.result.ok

====
